---- MODULE Spec2Model ----
(***************************************************************************)
(* Model of lightrag/kg/adb_mysql_impl.py: the ADBMYSQL connection object  *)
(* with its schema migrator (check_tables), the reference-counted          *)
(* ClientManager, the KV / Vector / DocStatus storage facades and the      *)
(* pagination parameter normalisation of get_docs_paginated.               *)
(*                                                                         *)
(* The SQL engine is outside the program: a statement either raises        *)
(* (because of the database state, or because the environment makes it     *)
(* fail: the set `faulty` of statement labels) or takes effect on the      *)
(* modelled database state.                                                *)
(***************************************************************************)
EXTENDS Integers, Sequences, FiniteSets, TLC

VARIABLES
    schema,     \* the database's catalog and row counts that check_tables reads and writes
    faulty,     \* labels of the statements the environment makes fail
    run,        \* outcome of the latest check_tables call
    db,         \* ClientManager._instances["db"]: None or the registered ADBMYSQL object
    ref_count,  \* ClientManager._instances["ref_count"]
    lock,       \* holder of ClientManager._lock, or None
    pc,         \* position of each caller inside get_client / release_client
    arg,        \* the handle a caller passed to release_client
    ret,        \* what each caller's latest call returned or raised
    calls,      \* per caller: initdb / check_tables runs of the call in progress or just ended
    objs,       \* ADBMYSQL objects built so far
    open,       \* objects whose connection pool is open
    issued,     \* objects get_client has returned to some caller
    store,      \* rows of the facade's table: (workspace, id) -> row or NoRow
    ns,         \* namespace of the facades of this behaviour
    now,        \* the clock (application and database)
    lastCall,   \* the latest facade call with its result
    step,       \* number of facade calls made
    finalized,  \* workspaces whose facade has run finalize(): its db is None
    embedding,  \* the PGVectorStorage.upsert call suspended in asyncio.gather, with its tasks
    facades,    \* the facade objects: their db and workspace fields
    tasks,      \* per coroutine: the facade method it runs and how far it is
    held,       \* holders of the storage lock and of the data-init lock
    attrs,      \* the workspace attribute of each ADBMYSQL object
    page        \* latest get_docs_paginated parameters and their normalisation

vars == <<schema, faulty, run, db, ref_count, lock, pc, arg, ret, calls,
          objs, open, issued, store, ns, now, lastCall, step, finalized,
          embedding, facades,
          tasks, held, attrs, page>>

None == "None"

(***************************************************************************)
(* Bounds of the model.                                                    *)
(***************************************************************************)
MaxDeviations == 1    \* how many ways the initial database differs from the current schema
MaxRuns == 2          \* direct check_tables runs in one behaviour
MaxRows == 1          \* rows initially in a table the migrator counts

(***************************************************************************)
(* TABLES (keys in definition order) and what their DDL creates.           *)
(***************************************************************************)
TABLES ==
    << "LIGHTRAG_DOC_FULL", "LIGHTRAG_DOC_CHUNKS", "LIGHTRAG_VDB_CHUNKS",
       "LIGHTRAG_VDB_ENTITY", "LIGHTRAG_VDB_RELATION", "LIGHTRAG_LLM_CACHE",
       "LIGHTRAG_DOC_STATUS", "LIGHTRAG_FULL_ENTITIES", "LIGHTRAG_FULL_RELATIONS" >>

Range(s) == { s[i] : i \in 1..Len(s) }

TableNames == Range(TABLES)

\* Columns that some schema versions lack or that only legacy versions have.
DdlColumns ==
    { <<"LIGHTRAG_DOC_CHUNKS", "llm_cache_list">>,
      <<"LIGHTRAG_DOC_STATUS", "chunks_list">>,
      <<"LIGHTRAG_DOC_STATUS", "track_id">>,
      <<"LIGHTRAG_DOC_STATUS", "metadata">>,
      <<"LIGHTRAG_DOC_STATUS", "error_msg">> }

LegacyColumns ==
    { <<"LIGHTRAG_DOC_CHUNKS", "content_vector">>,
      <<"LIGHTRAG_LLM_CACHE", "mode">> }

\* The columns _migrate_field_lengths looks at, with the type the DDL gives them.
field_migrations ==
    << [key |-> "LIGHTRAG_VDB_ENTITY.entity_name", table |-> "LIGHTRAG_VDB_ENTITY",
        column |-> "entity_name", new_type |-> "varchar(512)"],
       [key |-> "LIGHTRAG_VDB_RELATION.source_id", table |-> "LIGHTRAG_VDB_RELATION",
        column |-> "source_id", new_type |-> "varchar(512)"],
       [key |-> "LIGHTRAG_VDB_RELATION.target_id", table |-> "LIGHTRAG_VDB_RELATION",
        column |-> "target_id", new_type |-> "varchar(512)"],
       [key |-> "LIGHTRAG_DOC_CHUNKS.file_path", table |-> "LIGHTRAG_DOC_CHUNKS",
        column |-> "file_path", new_type |-> "text"],
       [key |-> "LIGHTRAG_VDB_CHUNKS.file_path", table |-> "LIGHTRAG_VDB_CHUNKS",
        column |-> "file_path", new_type |-> "text"] >>

FieldKeys == { field_migrations[i].key : i \in 1..Len(field_migrations) }

FieldOf(k) == field_migrations[CHOOSE j \in 1..Len(field_migrations) : field_migrations[j].key = k]

ColumnTypes ==
    { "absent", "varchar(255)", "varchar(256)", "varchar(512)", "varchar(1024)", "text" }

\* information_schema.columns: data_type and character_maximum_length of a type.
DataType(t) == IF t = "text" THEN "text" ELSE "character varying"

CharacterMaximumLength(t) ==
    CASE t = "varchar(255)" -> 255
      [] t = "varchar(256)" -> 256
      [] t = "varchar(512)" -> 512
      [] t = "varchar(1024)" -> 1024
      [] OTHER -> None

DdlType(k) == FieldOf(k).new_type

\* _create_pagination_indexes.indexes, in order.
PaginationIndexes ==
    << "idx_lightrag_doc_status_workspace_status_updated_at",
       "idx_lightrag_doc_status_workspace_status_created_at",
       "idx_lightrag_doc_status_workspace_updated_at",
       "idx_lightrag_doc_status_workspace_created_at",
       "idx_lightrag_doc_status_workspace_id",
       "idx_lightrag_doc_status_workspace_file_path" >>

TrackIdIndex == "idx_lightrag_doc_status_track_id"

FullTables == << "LIGHTRAG_FULL_ENTITIES", "LIGHTRAG_FULL_RELATIONS" >>

FullIndexes(t) ==
    IF t = "LIGHTRAG_FULL_ENTITIES"
    THEN << "idx_lightrag_full_entities_id", "idx_lightrag_full_entities_workspace_id" >>
    ELSE << "idx_lightrag_full_relations_id", "idx_lightrag_full_relations_workspace_id" >>

IndexTable(i) ==
    IF i \in Range(FullIndexes("LIGHTRAG_FULL_ENTITIES")) THEN "LIGHTRAG_FULL_ENTITIES"
    ELSE IF i \in Range(FullIndexes("LIGHTRAG_FULL_RELATIONS")) THEN "LIGHTRAG_FULL_RELATIONS"
    ELSE "LIGHTRAG_DOC_STATUS"

AllIndexes ==
    Range(PaginationIndexes) \cup {TrackIdIndex}
      \cup Range(FullIndexes("LIGHTRAG_FULL_ENTITIES"))
      \cup Range(FullIndexes("LIGHTRAG_FULL_RELATIONS"))

(***************************************************************************)
(* The database state the migrator depends on.                             *)
(*   tables   existing tables                                              *)
(*   cols     which of DdlColumns / LegacyColumns exist                    *)
(*   ctype    type of each column of field_migrations                      *)
(*   idx      existing secondary indexes                                   *)
(*   docRows, vdbRows     row counts of LIGHTRAG_DOC_CHUNKS / VDB_CHUNKS   *)
(*   cacheOld, cacheNew   LIGHTRAG_LLM_CACHE rows whose id has no ':' /    *)
(*                        has one                                          *)
(*   cacheClash  rewriting the old ids would collide on (workspace, id)    *)
(*   cacheTouched  rows whose update_time the migrator has overwritten     *)
(***************************************************************************)
CurrentSchema ==
    [ tables |-> TableNames,
      cols |-> DdlColumns,
      ctype |-> [k \in FieldKeys |-> DdlType(k)],
      idx |-> Range(PaginationIndexes) \cup {TrackIdIndex},
      docRows |-> 0, vdbRows |-> 0, cacheOld |-> 0, cacheNew |-> 0,
      cacheClash |-> FALSE, cacheTouched |-> 0 ]

\* CREATE TABLE t: the table appears with the columns and types of its DDL.
CreateTable(d, t) ==
    [d EXCEPT !.tables = @ \cup {t},
              !.cols = @ \cup { c \in DdlColumns : c[1] = t },
              !.ctype = [k \in FieldKeys |-> IF FieldOf(k).table = t THEN DdlType(k) ELSE @[k]]]

\* A table that does not exist has no columns, no indexes and no rows.
WithoutTable(d, t) ==
    [d EXCEPT !.tables = @ \ {t},
              !.cols = { c \in @ : c[1] # t },
              !.ctype = [k \in FieldKeys |-> IF FieldOf(k).table = t THEN "absent" ELSE @[k]],
              !.idx = { i \in @ : IndexTable(i) # t },
              !.docRows = IF t = "LIGHTRAG_DOC_CHUNKS" THEN 0 ELSE @,
              !.vdbRows = IF t = "LIGHTRAG_VDB_CHUNKS" THEN 0 ELSE @,
              !.cacheOld = IF t = "LIGHTRAG_LLM_CACHE" THEN 0 ELSE @,
              !.cacheNew = IF t = "LIGHTRAG_LLM_CACHE" THEN 0 ELSE @,
              !.cacheClash = IF t = "LIGHTRAG_LLM_CACHE" THEN FALSE ELSE @]

(***************************************************************************)
(* Statements.  A statement raises when the environment makes it fail      *)
(* (its label is in F) or when the database state makes it fail.  The      *)
(* outcome of a migration function is                                      *)
(*   db      the database state it leaves                                  *)
(*   failed  an exception was raised in it (caught inside or not)          *)
(*   raised  the exception left the function                               *)
(*   wrote   labels of its execute() calls that took effect, in order      *)
(***************************************************************************)
Fails(F, label) == label \in F

Outcome(d, failed, raised, wrote) ==
    [db |-> d, failed |-> failed, raised |-> raised, wrote |-> wrote]

\* The outcome o of one loop iteration followed by the outcome r of the rest.
Sequel(o, r) == Outcome(r.db, o.failed \/ r.failed, r.raised, o.wrote \o r.wrote)

\* The loop ends where an iteration lets its exception out.
Continue(o, r) == IF o.raised THEN o ELSE Sequel(o, r)

\* Run the outcomes of a loop body over the items of a sequence, in order.
RECURSIVE ForEach(_, _, _, _)
ForEach(Body(_, _, _), items, d, F) ==
    IF items = <<>> THEN Outcome(d, FALSE, FALSE, <<>>)
    ELSE LET o == Body(Head(items), d, F)
         IN Continue(o, ForEach(Body, Tail(items), o.db, F))

\* A creation failure that is logged and not re-raised.
EnsureTableLenient(t, d, F) ==
    IF ~Fails(F, <<"probe", t>>) /\ t \in d.tables
    THEN Outcome(d, FALSE, FALSE, <<>>)
    ELSE IF Fails(F, <<"ddl", t>>) \/ t \in d.tables
         THEN Outcome(d, TRUE, FALSE, <<>>)
         ELSE Outcome(CreateTable(d, t), FALSE, FALSE, << <<"ddl", t>> >>)

\* check_tables, first loop: probe each table; create it when the probe raises.
EnsureTable(t, d, F) ==
    IF ~Fails(F, <<"probe", t>>) /\ t \in d.tables
    THEN Outcome(d, FALSE, FALSE, <<>>)
    ELSE IF Fails(F, <<"ddl", t>>) \/ t \in d.tables
         THEN Outcome(d, TRUE, TRUE, <<>>)
         ELSE Outcome(CreateTable(d, t), FALSE, FALSE, << <<"ddl", t>> >>)

\* _migrate_doc_chunks_to_vdb_chunks: every exception is caught inside.
\* The copy without the test of LIGHTRAG_VDB_CHUNKS being empty.
migrate_doc_chunks_unchecked(d, F) ==
    IF <<"LIGHTRAG_DOC_CHUNKS", "content_vector">> \notin d.cols \/ d.docRows = 0
    THEN Outcome(d, FALSE, FALSE, <<>>)
    ELSE Outcome([d EXCEPT !.vdbRows = @ + d.docRows], FALSE, FALSE,
                 << <<"doc_chunks", "insert">> >>)

migrate_doc_chunks_to_vdb_chunks(d, F) ==
    IF Fails(F, <<"doc_chunks", "count_vdb">>) THEN Outcome(d, TRUE, FALSE, <<>>)
    ELSE IF d.vdbRows > 0 THEN Outcome(d, FALSE, FALSE, <<>>)
    ELSE IF Fails(F, <<"doc_chunks", "column">>) THEN Outcome(d, TRUE, FALSE, <<>>)
    ELSE IF <<"LIGHTRAG_DOC_CHUNKS", "content_vector">> \notin d.cols
         THEN Outcome(d, FALSE, FALSE, <<>>)
    ELSE IF Fails(F, <<"doc_chunks", "count_doc">>) THEN Outcome(d, TRUE, FALSE, <<>>)
    ELSE IF d.docRows = 0 THEN Outcome(d, FALSE, FALSE, <<>>)
    ELSE IF Fails(F, <<"doc_chunks", "insert">>) THEN Outcome(d, TRUE, FALSE, <<>>)
    ELSE Outcome([d EXCEPT !.vdbRows = @ + d.docRows], FALSE, FALSE,
                 << <<"doc_chunks", "insert">> >>)

\* _check_llm_cache_needs_migration: an exception reads as "no migration needed".
check_llm_cache_needs_migration(d, F) ==
    IF Fails(F, <<"llm_cache", "check">>) THEN FALSE ELSE d.cacheOld > 0

\* _migrate_llm_cache_to_flattened_keys: logs and re-raises.  The conflict query
\* and the UPDATE read the legacy column `mode`; the UPDATE rewrites every old id
\* in one statement, which the primary key rejects as a whole on a collision.
migrate_llm_cache_to_flattened_keys(d, F) ==
    IF Fails(F, <<"llm_cache", "count">>) THEN Outcome(d, TRUE, TRUE, <<>>)
    ELSE IF d.cacheOld = 0 THEN Outcome(d, FALSE, FALSE, <<>>)
    ELSE IF Fails(F, <<"llm_cache", "conflicts">>)
            \/ <<"LIGHTRAG_LLM_CACHE", "mode">> \notin d.cols
         THEN Outcome(d, TRUE, TRUE, <<>>)
    ELSE IF Fails(F, <<"llm_cache", "update">>) \/ d.cacheClash
         THEN Outcome(d, TRUE, TRUE, <<>>)
    ELSE LET e == [d EXCEPT !.cacheNew = @ + d.cacheOld, !.cacheOld = 0,
                            !.cacheTouched = @ + d.cacheOld]
         IN IF Fails(F, <<"llm_cache", "verify">>)
            THEN Outcome(e, TRUE, TRUE, << <<"llm_cache", "update">> >>)
            ELSE Outcome(e, FALSE, FALSE, << <<"llm_cache", "update">> >>)

\* check_tables lines 531-535: the check and the migration under one try.
migrate_llm_cache(d, F) ==
    IF check_llm_cache_needs_migration(d, F)
    THEN migrate_llm_cache_to_flattened_keys(d, F)
    ELSE Outcome(d, Fails(F, <<"llm_cache", "check">>), FALSE, <<>>)

\* Add a column unless information_schema lists it; exceptions are caught inside.
AddColumnIfMissing(name, col, d, F) ==
    IF Fails(F, <<name, "column">>) THEN Outcome(d, TRUE, FALSE, <<>>)
    ELSE IF col \in d.cols THEN Outcome(d, FALSE, FALSE, <<>>)
    ELSE IF Fails(F, <<name, "alter">>) THEN Outcome(d, TRUE, FALSE, <<>>)
    ELSE Outcome([d EXCEPT !.cols = @ \cup {col}], FALSE, FALSE, << <<name, "alter">> >>)

migrate_doc_status_add_chunks_list(d, F) ==
    AddColumnIfMissing("chunks_list", <<"LIGHTRAG_DOC_STATUS", "chunks_list">>, d, F)

migrate_text_chunks_add_llm_cache_list(d, F) ==
    AddColumnIfMissing("llm_cache_list", <<"LIGHTRAG_DOC_CHUNKS", "llm_cache_list">>, d, F)

\* Every listed column is altered whatever its current type.
AlwaysNeedsMigration(mig, t) == TRUE

\* _migrate_field_lengths: which columns are altered.
\* Every column that does not have the new type is altered.
needs_migration_unless_current(mig, t) == t # mig.new_type

needs_migration(mig, t) ==
    \/ mig.column = "entity_name" /\ CharacterMaximumLength(t) = 255
    \/ mig.column \in {"source_id", "target_id"} /\ CharacterMaximumLength(t) = 256
    \/ mig.column = "file_path" /\ DataType(t) = "character varying"

\* _migrate_field_lengths, one loop iteration (its own try/except).
MigrateField(mig, d, F) ==
    IF Fails(F, <<"field_lengths.column", mig.key>>) THEN Outcome(d, TRUE, FALSE, <<>>)
    ELSE IF d.ctype[mig.key] = "absent" THEN Outcome(d, FALSE, FALSE, <<>>)
    ELSE IF ~needs_migration(mig, d.ctype[mig.key]) THEN Outcome(d, FALSE, FALSE, <<>>)
    ELSE IF Fails(F, <<"field_lengths.alter", mig.key>>) THEN Outcome(d, TRUE, FALSE, <<>>)
    ELSE Outcome([d EXCEPT !.ctype[mig.key] = mig.new_type], FALSE, FALSE,
                 << <<"field_lengths.alter", mig.key>> >>)

migrate_field_lengths(d, F) == ForEach(MigrateField, field_migrations, d, F)

\* Create an index unless pg_indexes lists it.
CreateIndexIfMissing(checkLabel, createLabel, i, d, F) ==
    IF Fails(F, checkLabel) THEN Outcome(d, TRUE, FALSE, <<>>)
    ELSE IF i \in d.idx THEN Outcome(d, FALSE, FALSE, <<>>)
    ELSE IF Fails(F, createLabel) THEN Outcome(d, TRUE, FALSE, <<>>)
    ELSE Outcome([d EXCEPT !.idx = @ \cup {i}], FALSE, FALSE, << createLabel >>)

\* Two parts of one function under one try: the second runs only if the first
\* raised nothing.
Both(o, r) == Outcome(r.db, r.failed, r.raised, o.wrote \o r.wrote)

Then(o, Second(_, _), F) == IF o.failed THEN o ELSE Both(o, Second(o.db, F))

TrackIdIndexPart(d, F) ==
    CreateIndexIfMissing(<<"track_id", "index">>, <<"track_id", "create_index">>,
                         TrackIdIndex, d, F)

\* _migrate_doc_status_add_track_id: the column, then its index.
migrate_doc_status_add_track_id(d, F) ==
    Then(AddColumnIfMissing("track_id", <<"LIGHTRAG_DOC_STATUS", "track_id">>, d, F),
         TrackIdIndexPart, F)

ErrorMsgPart(d, F) ==
    AddColumnIfMissing("error_msg", <<"LIGHTRAG_DOC_STATUS", "error_msg">>, d, F)

\* _migrate_doc_status_add_metadata_error_msg: metadata, then error_msg.
migrate_doc_status_add_metadata_error_msg(d, F) ==
    Then(AddColumnIfMissing("metadata", <<"LIGHTRAG_DOC_STATUS", "metadata">>, d, F),
         ErrorMsgPart, F)

PaginationIndex(i, d, F) ==
    CreateIndexIfMissing(<<"pagination.check", i>>, <<"pagination.create", i>>, i, d, F)

\* _create_pagination_indexes: each index under its own try.
create_pagination_indexes(d, F) == ForEach(PaginationIndex, PaginationIndexes, d, F)

\* CREATE INDEX without IF NOT EXISTS.
FullIndex(i, d, F) ==
    IF Fails(F, <<"full.index", i>>) \/ i \in d.idx
    THEN Outcome(d, TRUE, TRUE, <<>>)
    ELSE Outcome([d EXCEPT !.idx = @ \cup {i}], FALSE, FALSE, << <<"full.index", i>> >>)

\* The table is created; x is the outcome of creating its indexes, whose
\* exception is caught by the inner try.
FullTableCreated(t, x) == Outcome(x.db, x.failed, FALSE, << <<"full.ddl", t>> >> \o x.wrote)

\* _migrate_create_full_entities_relations_tables, one table: the outer try
\* around the table, the inner try around its two indexes.
FullTable(t, d, F) ==
    IF Fails(F, <<"full.check", t>>) THEN Outcome(d, TRUE, FALSE, <<>>)
    ELSE IF t \in d.tables THEN Outcome(d, FALSE, FALSE, <<>>)
    ELSE IF Fails(F, <<"full.ddl", t>>) THEN Outcome(d, TRUE, FALSE, <<>>)
    ELSE FullTableCreated(t, ForEach(FullIndex, FullIndexes(t), CreateTable(d, t), F))

migrate_create_full_entities_relations_tables(d, F) == ForEach(FullTable, FullTables, d, F)

(***************************************************************************)
(* check_tables.                                                           *)
(***************************************************************************)
\* First loop (lines 508-522): stops at the first creation failure.
EnsureEntry(t, o) ==
    [table |-> t,
     probe |-> IF o.raised \/ o.wrote # <<>> THEN "raised" ELSE "ok",
     ddl |-> IF o.raised THEN "raised" ELSE IF o.wrote # <<>> THEN "ok" ELSE "none"]

\* The log entry and the writes of one step put before those of the rest r.
Logged(entry, wrote, r) ==
    [db |-> r.db, raised |-> r.raised, log |-> <<entry>> \o r.log, wrote |-> wrote \o r.wrote]

RECURSIVE EnsureTables(_, _, _)
RECURSIVE EnsureTablesAfter(_, _, _)
EnsureTablesAfter(o, ts, F) ==
    IF o.raised
    THEN [db |-> o.db, raised |-> TRUE, log |-> <<EnsureEntry(Head(ts), o)>>, wrote |-> <<>>]
    ELSE Logged(EnsureEntry(Head(ts), o), o.wrote, EnsureTables(Tail(ts), o.db, F))

EnsureTables(ts, d, F) ==
    IF ts = <<>> THEN [db |-> d, raised |-> FALSE, log |-> <<>>, wrote |-> <<>>]
    ELSE EnsureTablesAfter(EnsureTable(Head(ts), d, F), ts, F)

\* The structural migrations in the order check_tables calls them (lines 524-587).
Migrations ==
    << "doc_chunks_to_vdb_chunks", "llm_cache_to_flattened_keys",
       "doc_status_add_chunks_list", "text_chunks_add_llm_cache_list",
       "field_lengths", "doc_status_add_track_id",
       "doc_status_add_metadata_error_msg", "pagination_indexes",
       "full_entities_relations_tables" >>

Migration(name, d, F) ==
    CASE name = "doc_chunks_to_vdb_chunks" -> migrate_doc_chunks_to_vdb_chunks(d, F)
      [] name = "llm_cache_to_flattened_keys" -> migrate_llm_cache(d, F)
      [] name = "doc_status_add_chunks_list" -> migrate_doc_status_add_chunks_list(d, F)
      [] name = "text_chunks_add_llm_cache_list" -> migrate_text_chunks_add_llm_cache_list(d, F)
      [] name = "field_lengths" -> migrate_field_lengths(d, F)
      [] name = "doc_status_add_track_id" -> migrate_doc_status_add_track_id(d, F)
      [] name = "doc_status_add_metadata_error_msg" -> migrate_doc_status_add_metadata_error_msg(d, F)
      [] name = "pagination_indexes" -> create_pagination_indexes(d, F)
      [] name = "full_entities_relations_tables" -> migrate_create_full_entities_relations_tables(d, F)

\* A migration with its exception propagating: what check_tables would see
\* without the try/except around the call.
Unguarded(name, d, F) == Migration(name, d, F)

\* try: await self._migrate_...()  except Exception: logger.error(...)
Guarded(name, d, F) == [Migration(name, d, F) EXCEPT !.raised = FALSE]

StepEntry(name, d, o) ==
    [name |-> name, failed |-> o.failed, changed |-> o.db # d, wrote |-> Len(o.wrote)]

\* An exception that leaves a migration leaves check_tables; otherwise the
\* next migration runs.
RECURSIVE RunMigrations(_, _, _)
RECURSIVE RunMigrationsAfter(_, _, _, _)
RunMigrationsAfter(o, names, d, F) ==
    IF o.raised
    THEN [db |-> o.db, raised |-> TRUE, log |-> <<StepEntry(Head(names), d, o)>>,
          wrote |-> o.wrote]
    ELSE Logged(StepEntry(Head(names), d, o), o.wrote, RunMigrations(Tail(names), o.db, F))

RunMigrations(names, d, F) ==
    IF names = <<>> THEN [db |-> d, raised |-> FALSE, log |-> <<>>, wrote |-> <<>>]
    ELSE RunMigrationsAfter(Guarded(Head(names), d, F), names, d, F)

\* The outcome of check_tables from the outcomes e of the first loop and m of
\* the migrations.
Checked(e, m) ==
    [db |-> m.db, raised |-> m.raised, ensure |-> e.log, steps |-> m.log,
     wrote |-> e.wrote \o m.wrote]

\* A creation failure ends check_tables before any migration.
AfterEnsure(e, F) ==
    IF e.raised
    THEN [db |-> e.db, raised |-> TRUE, ensure |-> e.log, steps |-> <<>>, wrote |-> e.wrote]
    ELSE Checked(e, RunMigrations(Migrations, e.db, F))

\* check_tables: the outcome of one call on database d when the statements F fail.
check_tables(d, F) == AfterEnsure(EnsureTables(TABLES, d, F), F)

(***************************************************************************)
(* The databases a process may start on: the current schema changed in at  *)
(* most MaxDeviations ways.                                                *)
(***************************************************************************)
OldTypes(k) ==
    IF FieldOf(k).column = "file_path" THEN {"varchar(256)"}
    ELSE {"varchar(255)", "varchar(256)", "varchar(1024)"}

Deviations ==
    { <<"fresh", "", "">> }
      \cup { <<"no_table", t, "">> : t \in TableNames }
      \cup { <<"no_column", c[1], c[2]>> : c \in DdlColumns }
      \cup { <<"legacy_column", c[1], c[2]>> : c \in LegacyColumns }
      \cup UNION { { <<"old_type", k, t>> : t \in OldTypes(k) } : k \in FieldKeys }
      \cup { <<"no_index", i, "">> : i \in Range(PaginationIndexes) \cup {TrackIdIndex} }
      \cup { <<"rows", w, "">> : w \in {"doc", "vdb", "cache_old", "cache_new"} }
      \cup { <<"legacy", w, "">> : w \in {"chunks", "cache", "cache_clash", "doc_status"} }

\* One deviation of a database in which every table exists.
Deviate(d, v) ==
    CASE v[1] = "no_column" -> [d EXCEPT !.cols = @ \ {<<v[2], v[3]>>}]
      [] v[1] = "legacy_column" -> [d EXCEPT !.cols = @ \cup {<<v[2], v[3]>>}]
      [] v[1] = "old_type" -> [d EXCEPT !.ctype[v[2]] = v[3]]
      [] v[1] = "no_index" -> [d EXCEPT !.idx = @ \ {v[2]}]
      [] v = <<"rows", "doc", "">> -> [d EXCEPT !.docRows = MaxRows]
      [] v = <<"rows", "vdb", "">> -> [d EXCEPT !.vdbRows = MaxRows]
      [] v = <<"rows", "cache_old", "">> -> [d EXCEPT !.cacheOld = MaxRows]
      [] v = <<"rows", "cache_new", "">> -> [d EXCEPT !.cacheNew = MaxRows]
      [] v = <<"legacy", "chunks", "">> ->
            [d EXCEPT !.docRows = MaxRows,
                      !.cols = @ \cup {<<"LIGHTRAG_DOC_CHUNKS", "content_vector">>}]
      [] v = <<"legacy", "cache", "">> ->
            [d EXCEPT !.cacheOld = MaxRows,
                      !.cols = @ \cup {<<"LIGHTRAG_LLM_CACHE", "mode">>}]
      [] v = <<"legacy", "cache_clash", "">> ->
            [d EXCEPT !.cacheOld = MaxRows, !.cacheClash = MaxRows > 0,
                      !.cols = @ \cup {<<"LIGHTRAG_LLM_CACHE", "mode">>}]
      [] v = <<"legacy", "doc_status", "">> ->
            [d EXCEPT !.cols = { c \in @ : c[1] # "LIGHTRAG_DOC_STATUS" },
                      !.idx = { i \in @ : IndexTable(i) # "LIGHTRAG_DOC_STATUS" }]
      [] OTHER -> d

RECURSIVE DeviateAll(_, _)
DeviateAll(d, vs) ==
    IF vs = {} THEN d
    ELSE LET v == CHOOSE x \in vs : TRUE IN DeviateAll(Deviate(d, v), vs \ {v})

RECURSIVE WithoutTables(_, _)
WithoutTables(d, ts) ==
    IF ts = {} THEN d
    ELSE LET t == CHOOSE x \in ts : TRUE IN WithoutTables(WithoutTable(d, t), ts \ {t})

\* The deviations that keep every table are applied first, then tables are removed
\* together with all that belongs to them.
Deviated(vs) ==
    WithoutTables(DeviateAll(CurrentSchema, vs),
                  IF <<"fresh", "", "">> \in vs THEN TableNames
                  ELSE { v[2] : v \in { x \in vs : x[1] = "no_table" } })

\* The subsets of S with at most k elements.
RECURSIVE UpTo(_, _)
UpTo(S, k) ==
    IF k = 0 THEN {{}}
    ELSE LET P == UpTo(S, k - 1) IN P \cup { p \cup {x} : p \in P, x \in S }

InitSchemas == { Deviated(vs) : vs \in UpTo(Deviations, MaxDeviations) }

\* Labels of the statements check_tables can issue.
Labels ==
    { <<"probe", t>> : t \in TableNames } \cup { <<"ddl", t>> : t \in TableNames }
      \cup { <<"doc_chunks", q>> : q \in {"count_vdb", "column", "count_doc", "insert"} }
      \cup { <<"llm_cache", q>> : q \in {"check", "count", "conflicts", "update", "verify"} }
      \cup { <<n, q>> : n \in {"chunks_list", "llm_cache_list", "metadata", "error_msg"},
                        q \in {"column", "alter"} }
      \cup { <<"track_id", q>> : q \in {"column", "alter", "index", "create_index"} }
      \cup { <<q, k>> : q \in {"field_lengths.column", "field_lengths.alter"}, k \in FieldKeys }
      \cup { <<q, i>> : q \in {"pagination.check", "pagination.create"},
                        i \in Range(PaginationIndexes) }
      \cup { <<q, t>> : q \in {"full.check", "full.ddl"}, t \in Range(FullTables) }
      \cup { <<"full.index", i>> : i \in AllIndexes \ (Range(PaginationIndexes) \cup {TrackIdIndex}) }

StructuralLabels == { l \in Labels : l[1] \notin {"probe", "ddl"} }

\* What the environment makes fail in one behaviour: nothing, one statement, or
\* every statement of the structural migrations.
FaultSets == {{}} \cup { {l} : l \in Labels } \cup {StructuralLabels}

(***************************************************************************)
(* SpecMig: check_tables called directly, up to MaxRuns times, on a        *)
(* database of InitSchemas, with the statements of `faulty` failing.       *)
(***************************************************************************)
NoRun == [pre |-> <<>>, F |-> {}, db |-> <<>>, raised |-> FALSE,
          ensure |-> <<>>, steps |-> <<>>, wrote |-> <<>>, n |-> 0]

\* The record of a check_tables call on database d under faults F; n counts calls.
RunRecord(r, d, F, n) ==
    [pre |-> d, F |-> F, db |-> r.db, raised |-> r.raised, ensure |-> r.ensure,
     steps |-> r.steps, wrote |-> r.wrote, n |-> n]

RunOf(d, F, n) == RunRecord(check_tables(d, F), d, F, n)

(***************************************************************************)
(* ClientManager.  Callers are coroutines of one event loop: a step runs   *)
(* from one await to the next.  `async with cls._lock` suspends the caller *)
(* while another caller holds the lock; initdb, check_tables and           *)
(* pool.close() are awaited with the lock held.                            *)
(***************************************************************************)
MaxRef == 2           \* get_client calls are issued while fewer handles are out
MaxObjs == 2          \* ADBMYSQL objects built in one behaviour

Procs == {"task_a", "task_b"}   \* the coroutines that call the manager

NoObj == 0            \* None where an ADBMYSQL object is expected
NoProc == "nobody"    \* the lock is free

\* An ADBMYSQL object built outside ClientManager.
Foreign == MaxObjs + 1

Pending == [kind |-> "pending", obj |-> NoObj]
Raised == [kind |-> "raised", obj |-> NoObj]
Returned == [kind |-> "returned", obj |-> NoObj]
Handle(o) == [kind |-> "handle", obj |-> o]

NoCall == [obj |-> NoObj, found |-> "", initdb |-> 0, check_tables |-> 0]

\* The faults of the check_tables run inside get_client: none, a failing probe,
\* a failing creation DDL, a failing structural statement.
ClientFaultSets ==
    { {}, { <<"probe", TABLES[1]>> }, { <<"ddl", TABLES[Len(TABLES)]>> },
      { <<"track_id", "index">> } }

ClientInitSchemas ==
    { Deviated({}), Deviated({ <<"fresh", "", "">> }),
      Deviated({ <<"no_column", "LIGHTRAG_DOC_STATUS", "track_id">>,
                 <<"no_index", TrackIdIndex, "">> }) }

\* `async with cls._lock` can be entered.
LockFreeAlways(p) == TRUE

LockFree(p) == lock = NoProc

\* Line 784: the registry is empty.
RegistryEmpty == db = NoObj

\* Lines 788-789: the object is registered only after check_tables returned.
RegisteredAlways(raised, obj) == obj

Registered(raised, obj) == IF raised THEN db ELSE obj

\* Line 800: the last reference is gone.
LastReferenceEarly(n) == n <= 1

LastReference(n) == n = 0

OutstandingCalls == Cardinality({ q \in Procs : pc[q] \in {"get_client", "initdb", "check_tables"} })

ClientUnchanged == UNCHANGED <<store, ns, now, lastCall, step, finalized, embedding, facades,
          tasks, held, attrs, page>>

\* A caller calls get_client() and reaches `async with cls._lock`.
CallGetClient(p) ==
    /\ pc[p] = "idle"
    /\ ref_count + OutstandingCalls < MaxRef
    /\ pc' = [pc EXCEPT ![p] = "get_client"]
    /\ ret' = [ret EXCEPT ![p] = Pending]
    /\ calls' = [calls EXCEPT ![p] = NoCall]
    /\ UNCHANGED <<schema, faulty, run, db, ref_count, lock, arg, objs, open, issued>>
    /\ ClientUnchanged

\* Lines 783-792 with the registry non-empty: no await, the lock is taken and
\* released within the step.
GetClientExisting(p) ==
    /\ pc[p] = "get_client"
    /\ LockFree(p)
    /\ ~RegistryEmpty
    /\ ref_count' = ref_count + 1
    /\ ret' = [ret EXCEPT ![p] = Handle(db)]
    /\ calls' = [calls EXCEPT ![p].found = "nonempty"]
    /\ pc' = [pc EXCEPT ![p] = "idle"]
    /\ UNCHANGED <<schema, faulty, run, db, lock, arg, objs, open, issued>>
    /\ ClientUnchanged

\* Lines 783-787 with the registry empty: ADBMYSQL(config) is built (it raises
\* ValueError when user or password is missing) and initdb is awaited.
GetClientCreate(p) ==
    /\ pc[p] = "get_client"
    /\ LockFree(p)
    /\ RegistryEmpty
    /\ objs < MaxObjs
    /\ \E credentials \in BOOLEAN :
          IF credentials
          THEN /\ objs' = objs + 1
               /\ calls' = [calls EXCEPT ![p] = [NoCall EXCEPT !.obj = objs + 1, !.found = "empty"]]
               /\ lock' = p
               /\ pc' = [pc EXCEPT ![p] = "initdb"]
               /\ UNCHANGED ret
          ELSE /\ calls' = [calls EXCEPT ![p].found = "empty"]
               /\ ret' = [ret EXCEPT ![p] = Raised]
               /\ pc' = [pc EXCEPT ![p] = "idle"]
               /\ UNCHANGED <<objs, lock>>
    /\ UNCHANGED <<schema, faulty, run, db, ref_count, arg, open, issued>>
    /\ ClientUnchanged

\* initdb (lines 56-61) completes: the pool exists, or the error is re-raised
\* and leaves get_client, releasing the lock.
InitDb(p) ==
    /\ pc[p] = "initdb"
    /\ \E connected \in BOOLEAN :
          IF connected
          THEN /\ open' = open \cup {calls[p].obj}
               /\ pc' = [pc EXCEPT ![p] = "check_tables"]
               /\ UNCHANGED <<ret, lock>>
          ELSE /\ ret' = [ret EXCEPT ![p] = Raised]
               /\ lock' = NoProc
               /\ pc' = [pc EXCEPT ![p] = "idle"]
               /\ UNCHANGED open
    /\ calls' = [calls EXCEPT ![p].initdb = @ + 1]
    /\ UNCHANGED <<schema, faulty, run, db, ref_count, arg, objs, issued>>
    /\ ClientUnchanged

\* check_tables completes (lines 788-792): on success the object is registered
\* with ref_count 0 + 1 and returned; an exception leaves get_client.
CheckTables(p) ==
    /\ pc[p] = "check_tables"
    /\ \E F \in ClientFaultSets : run' = RunOf(schema, F, 0)
    /\ schema' = run'.db
    /\ db' = Registered(run'.raised, calls[p].obj)
    /\ ref_count' = IF run'.raised THEN ref_count ELSE 1
    /\ ret' = [ret EXCEPT ![p] = IF run'.raised THEN Raised
                                 ELSE Handle(Registered(run'.raised, calls[p].obj))]
    /\ issued' = IF run'.raised THEN issued ELSE issued \cup {calls[p].obj}
    /\ calls' = [calls EXCEPT ![p].check_tables = @ + 1]
    /\ lock' = NoProc
    /\ pc' = [pc EXCEPT ![p] = "idle"]
    /\ UNCHANGED <<faulty, arg, objs, open>>
    /\ ClientUnchanged

\* A caller calls release_client(h) with None, with any handle get_client has
\* returned or with an object of its own.
CallReleaseClient(p) ==
    /\ pc[p] = "idle"
    /\ \E h \in {NoObj, Foreign} \cup issued : arg' = [arg EXCEPT ![p] = h]
    /\ pc' = [pc EXCEPT ![p] = "release_client"]
    /\ ret' = [ret EXCEPT ![p] = Pending]
    /\ calls' = [calls EXCEPT ![p] = NoCall]
    /\ UNCHANGED <<schema, faulty, run, db, ref_count, lock, objs, open, issued>>
    /\ ClientUnchanged

\* Lines 796-800, 804: up to the await of pool.close(), or to the end when
\* nothing is closed.
ReleaseClient(p) ==
    /\ pc[p] = "release_client"
    /\ LockFree(p)
    /\ IF arg[p] = NoObj
       THEN /\ pc' = [pc EXCEPT ![p] = "idle"]
            /\ ret' = [ret EXCEPT ![p] = Returned]
            /\ UNCHANGED <<ref_count, lock>>
       ELSE IF arg[p] = db
       THEN /\ ref_count' = ref_count - 1
            /\ IF LastReference(ref_count - 1)
               THEN /\ lock' = p
                    /\ pc' = [pc EXCEPT ![p] = "close"]
                    /\ UNCHANGED ret
               ELSE /\ pc' = [pc EXCEPT ![p] = "idle"]
                    /\ ret' = [ret EXCEPT ![p] = Returned]
                    /\ UNCHANGED lock
       ELSE /\ lock' = p
            /\ pc' = [pc EXCEPT ![p] = "close"]
            /\ UNCHANGED <<ref_count, ret>>
    /\ UNCHANGED <<schema, faulty, run, db, arg, calls, objs, open, issued>>
    /\ ClientUnchanged

\* pool.close() completes (lines 801-803 for the registered object, line 805
\* for any other) and the lock is released.
ClosePool(p) ==
    /\ pc[p] = "close"
    /\ open' = open \ {arg[p]}
    /\ db' = IF arg[p] = db THEN NoObj ELSE db
    /\ lock' = NoProc
    /\ pc' = [pc EXCEPT ![p] = "idle"]
    /\ ret' = [ret EXCEPT ![p] = Returned]
    /\ UNCHANGED <<schema, faulty, run, ref_count, arg, calls, objs, issued>>
    /\ ClientUnchanged

(***************************************************************************)
(* Storage facades.  One physical table is observed: the table of the      *)
(* namespace the facades under observation were built with.  `store` maps  *)
(* the primary key <<workspace, id>> to the row; create_time/update_time   *)
(* stand for created_at/updated_at in LIGHTRAG_DOC_STATUS.  Time 0 is the  *)
(* zero timestamp the read paths treat as absent, the clock starts at 1.   *)
(***************************************************************************)
MaxNow == 2           \* the clock stops here
MaxSteps == 2         \* facade calls in one behaviour

Workspaces == {"A", "B"}
Ids == {"x", "y"}
Keys == Workspaces \X Ids

\* A namespace is a string, written as the sequence of the pieces whose
\* concatenation it is: words and the separator "_".  No registered name ends
\* another one inside a word, so the pieces keep every suffix relation.
NameSpace ==
    [ KV_STORE_FULL_DOCS |-> <<"full", "_", "docs">>,
      KV_STORE_TEXT_CHUNKS |-> <<"text", "_", "chunks">>,
      KV_STORE_FULL_ENTITIES |-> <<"full", "_", "entities">>,
      KV_STORE_FULL_RELATIONS |-> <<"full", "_", "relations">>,
      KV_STORE_LLM_RESPONSE_CACHE |-> <<"llm", "_", "response", "_", "cache">>,
      VECTOR_STORE_CHUNKS |-> <<"chunks">>,
      VECTOR_STORE_ENTITIES |-> <<"entities">>,
      VECTOR_STORE_RELATIONSHIPS |-> <<"relationships">>,
      DOC_STATUS |-> <<"doc", "_", "status">> ]

\* is_namespace(namespace, base_namespace): namespace.endswith(base_namespace).
is_namespace(namespace, base) ==
    /\ Len(base) <= Len(namespace)
    /\ SubSeq(namespace, Len(namespace) - Len(base) + 1, Len(namespace)) = base

\* The map with the general names registered before the specific ones.
GeneralFirstMap ==
    << <<NameSpace.VECTOR_STORE_CHUNKS, "LIGHTRAG_VDB_CHUNKS">>,
       <<NameSpace.VECTOR_STORE_ENTITIES, "LIGHTRAG_VDB_ENTITY">>,
       <<NameSpace.VECTOR_STORE_RELATIONSHIPS, "LIGHTRAG_VDB_RELATION">>,
       <<NameSpace.KV_STORE_FULL_DOCS, "LIGHTRAG_DOC_FULL">>,
       <<NameSpace.KV_STORE_TEXT_CHUNKS, "LIGHTRAG_DOC_CHUNKS">>,
       <<NameSpace.KV_STORE_FULL_ENTITIES, "LIGHTRAG_FULL_ENTITIES">>,
       <<NameSpace.KV_STORE_FULL_RELATIONS, "LIGHTRAG_FULL_RELATIONS">>,
       <<NameSpace.KV_STORE_LLM_RESPONSE_CACHE, "LIGHTRAG_LLM_CACHE">>,
       <<NameSpace.DOC_STATUS, "LIGHTRAG_DOC_STATUS">> >>

NAMESPACE_TABLE_MAP ==
    << <<NameSpace.KV_STORE_FULL_DOCS, "LIGHTRAG_DOC_FULL">>,
       <<NameSpace.KV_STORE_TEXT_CHUNKS, "LIGHTRAG_DOC_CHUNKS">>,
       <<NameSpace.KV_STORE_FULL_ENTITIES, "LIGHTRAG_FULL_ENTITIES">>,
       <<NameSpace.KV_STORE_FULL_RELATIONS, "LIGHTRAG_FULL_RELATIONS">>,
       <<NameSpace.KV_STORE_LLM_RESPONSE_CACHE, "LIGHTRAG_LLM_CACHE">>,
       <<NameSpace.VECTOR_STORE_CHUNKS, "LIGHTRAG_VDB_CHUNKS">>,
       <<NameSpace.VECTOR_STORE_ENTITIES, "LIGHTRAG_VDB_ENTITY">>,
       <<NameSpace.VECTOR_STORE_RELATIONSHIPS, "LIGHTRAG_VDB_RELATION">>,
       <<NameSpace.DOC_STATUS, "LIGHTRAG_DOC_STATUS">> >>

\* The first entry of the map whose key the namespace ends with; None without one.
namespace_to_table_name(namespace) ==
    LET hits == { i \in DOMAIN NAMESPACE_TABLE_MAP :
                     is_namespace(namespace, NAMESPACE_TABLE_MAP[i][1]) }
    IN IF hits = {} THEN None
       ELSE NAMESPACE_TABLE_MAP[CHOOSE i \in hits : \A j \in hits : i <= j][2]

\* The facades under observation: a storage class and the namespace it was built with.
Facade(cls, namespace) == [cls |-> cls, namespace |-> namespace]

Facades ==
    { Facade("PGKVStorage", n) :
         n \in { NameSpace.KV_STORE_FULL_DOCS, NameSpace.KV_STORE_TEXT_CHUNKS,
                 NameSpace.KV_STORE_FULL_ENTITIES, NameSpace.KV_STORE_FULL_RELATIONS,
                 NameSpace.KV_STORE_LLM_RESPONSE_CACHE } }
      \cup { Facade("PGVectorStorage", n) :
                n \in { NameSpace.VECTOR_STORE_CHUNKS, NameSpace.VECTOR_STORE_ENTITIES,
                        NameSpace.VECTOR_STORE_RELATIONSHIPS } }
      \cup { Facade("PGDocStatusStorage", NameSpace.DOC_STATUS) }

\* Facades built with a namespace that no key of NAMESPACE_TABLE_MAP ends.
UnknownFacades == { Facade("PGKVStorage", <<"graph">>), Facade("PGVectorStorage", <<"graph">>) }

NoFacade == Facade("", <<>>)

DocStatusFacade == Facade("PGDocStatusStorage", NameSpace.DOC_STATUS)

(***************************************************************************)
(* JSON-bearing columns.  A JSON text is the sequence of its tokens: the   *)
(* punctuation, the word null, and atoms that stand for string literals.   *)
(* The payloads are flat: lists of strings, dicts from strings to strings  *)
(* in insertion order (the items of a dict are key, value, key, value...). *)
(* A Python value is a record with its type, so that the empty list, the   *)
(* empty dict, None and a str are four values.                             *)
(***************************************************************************)
Punctuation == { "[", "]", "{", "}", ",", ":" }

JList(items) == [type |-> "list", items |-> items]
JDict(items) == [type |-> "dict", items |-> items]
JStr(a) == [type |-> "str", items |-> <<a>>]
PyNone == [type |-> "None", items |-> <<>>]
JSONDecodeError == [type |-> "JSONDecodeError", items |-> <<>>]

\* A column value: NULL, or a text.
Cell(text) == [null |-> FALSE, text |-> text]
NullCell == [null |-> TRUE, text |-> <<>>]

RECURSIVE Separated(_)
Separated(parts) ==
    IF parts = <<>> THEN <<>>
    ELSE IF Len(parts) = 1 THEN parts[1]
    ELSE parts[1] \o <<",">> \o Separated(Tail(parts))

\* json.dumps(x)
dumps(x) ==
    CASE x.type = "list" ->
            <<"[">> \o Separated([i \in DOMAIN x.items |-> <<x.items[i]>>]) \o <<"]">>
      [] x.type = "dict" ->
            <<"{">> \o Separated([i \in 1 .. Len(x.items) \div 2 |->
                                     <<x.items[2 * i - 1], ":", x.items[2 * i]>>]) \o <<"}">>
      [] x.type = "str" -> x.items
      [] x.type = "None" -> <<"null">>

IsAtom(token) == token \notin Punctuation /\ token # "null"

Enclosed(text, left, right) ==
    Len(text) >= 2 /\ text[1] = left /\ text[Len(text)] = right

Inner(text) == SubSeq(text, 2, Len(text) - 1)

IsElements(inner) ==
    \/ inner = <<>>
    \/ /\ Len(inner) % 2 = 1
       /\ \A i \in DOMAIN inner : IF i % 2 = 1 THEN IsAtom(inner[i]) ELSE inner[i] = ","

IsMembers(inner) ==
    \/ inner = <<>>
    \/ /\ Len(inner) % 4 = 3
       /\ \A i \in DOMAIN inner :
             CASE i % 4 = 1 -> IsAtom(inner[i])
               [] i % 4 = 2 -> inner[i] = ":"
               [] i % 4 = 3 -> IsAtom(inner[i])
               [] OTHER -> inner[i] = ","

\* json.loads(text): the value, or JSONDecodeError where it raises.
loads(text) ==
    IF Enclosed(text, "[", "]") /\ IsElements(Inner(text))
    THEN JList([j \in 1 .. (Len(text) - 1) \div 2 |-> text[2 * j]])
    ELSE IF Enclosed(text, "{", "}") /\ IsMembers(Inner(text))
    THEN JDict([j \in 1 .. (Len(text) - 1) \div 2 |-> text[2 * j]])
    ELSE IF text = <<"null">> THEN PyNone
    ELSE IF Len(text) = 1 /\ IsAtom(text[1]) THEN JStr(text[1])
    ELSE JSONDecodeError

\* isinstance(x, str) ... try: json.loads(x) except JSONDecodeError: default.
\* A NULL column reads as None, which is not a str and is kept.
loads_or(cell, default) ==
    IF cell.null THEN PyNone
    ELSE IF loads(cell.text) = JSONDecodeError THEN default ELSE loads(cell.text)

\* The JSON-bearing columns the facade writes and decodes.
JsonColumns(f) ==
    IF f.cls = "PGKVStorage"
    THEN IF is_namespace(f.namespace, NameSpace.KV_STORE_TEXT_CHUNKS) THEN {"llm_cache_list"}
         ELSE IF is_namespace(f.namespace, NameSpace.KV_STORE_LLM_RESPONSE_CACHE)
              THEN {"queryparam"}
         ELSE IF is_namespace(f.namespace, NameSpace.KV_STORE_FULL_ENTITIES)
              THEN {"entity_names"}
         ELSE IF is_namespace(f.namespace, NameSpace.KV_STORE_FULL_RELATIONS)
              THEN {"relation_pairs"}
         ELSE {}
    ELSE IF f.cls = "PGDocStatusStorage" THEN {"chunks_list", "metadata"}
    ELSE {}

\* A key the upserted record does not have.
Absent == [type |-> "absent", items |-> <<>>]

\* v.get(column): the record's payloads are in v.json.
Payload(v, column) ==
    IF "json" \in DOMAIN v /\ column \in DOMAIN v.json THEN v.json[column] ELSE Absent

\* bool(x) is False.
Falsy(x) == x.type \in {"absent", "None"} \/ x.items = <<>>

\* What upsert binds to the column: json.dumps(v.get(column, default)), and
\* for queryparam json.dumps(...) if v.get("queryparam") else None.
\* entity_names and relation_pairs are read with v[...]: they are present.
Encode(column, x) ==
    CASE column = "queryparam" -> IF Falsy(x) THEN NullCell ELSE Cell(dumps(x))
      [] column \in {"llm_cache_list", "chunks_list"} ->
            Cell(dumps(IF x = Absent THEN JList(<<>>) ELSE x))
      [] column = "metadata" -> Cell(dumps(IF x = Absent THEN JDict(<<>>) ELSE x))
      [] OTHER -> Cell(dumps(x))

EncodeAll(f, v) == [c \in JsonColumns(f) |-> Encode(c, Payload(v, c))]

\* What get_by_id returns for the column.  get_by_id_text_chunks selects
\* COALESCE(llm_cache_list, '[]'); a malformed queryparam becomes None.
Decode(column, cell) ==
    CASE column = "llm_cache_list" ->
            loads_or(IF cell.null THEN Cell(<<"[", "]">>) ELSE cell, JList(<<>>))
      [] column = "queryparam" -> loads_or(cell, PyNone)
      [] column = "metadata" -> loads_or(cell, JDict(<<>>))
      [] OTHER -> loads_or(cell, JList(<<>>))

\* The data columns as a read path returns them.
ReadData(f, data) ==
    IF JsonColumns(f) = {} THEN data
    ELSE [data EXCEPT !.json = [c \in JsonColumns(f) |-> Decode(c, data.json[c])]]

\* A record with the same payload x in each JSON-bearing field.
JsonRecord(f, content, x) == [content |-> content, json |-> [c \in JsonColumns(f) |-> x]]

\* The values a caller upserts.  A DocStatus value carries its own timestamps.
Contents == {"c1", "c2"}

DocPending ==
    [status |-> "pending", file_path |-> "a.txt", track_id |-> "t1", created_at |-> 1,
     updated_at |-> 1]

DocProcessed ==
    [status |-> "processed", file_path |-> "b.txt", track_id |-> "t2", created_at |-> 1,
     updated_at |-> 2]

DocProcessing == [DocPending EXCEPT !.status = "processing", !.updated_at = 2]

DocFailed == [DocProcessed EXCEPT !.status = "failed"]

DocStatusValues == { DocPending, DocProcessing, DocProcessed, DocFailed }

\* The timestamp column is NULL: parse_datetime(None) is None.
NullTime == -1

\* A record without updated_at, and one updated before it was created.
DocUndated == [DocPending EXCEPT !.updated_at = NullTime]

DocBackdated == [DocProcessed EXCEPT !.created_at = 2, !.updated_at = 1]

Values(f) ==
    IF f.cls = "PGDocStatusStorage" THEN DocStatusValues
    ELSE IF JsonColumns(f) = {} THEN Contents
    ELSE { JsonRecord(f, "c1", JDict(<<>>)), JsonRecord(f, "c2", JDict(<<"k", "v">>)) }

\* embedding_func on one content.
embedding_func(content) == <<"embedding", content>>

Row(data, create_time, update_time) ==
    [data |-> data, create_time |-> create_time, update_time |-> update_time]

\* The data columns of the row an upsert statement writes.
DataColumns(f, v) ==
    IF f.cls = "PGDocStatusStorage"
    THEN [status |-> v.status, file_path |-> v.file_path, track_id |-> v.track_id,
          json |-> EncodeAll(f, v)]
    ELSE IF f.cls = "PGVectorStorage" THEN [content |-> v, content_vector |-> embedding_func(v)]
    ELSE IF JsonColumns(f) = {} THEN [content |-> v]
    ELSE [content |-> v.content, json |-> EncodeAll(f, v)]

\* Table contents as a function of the primary key.
Put(s, key, row) == [k \in DOMAIN s \cup {key} |-> IF k = key THEN row ELSE s[k]]

Remove(s, keys) == [k \in DOMAIN s \ keys |-> s[k]]

\* on conflict(id,workspace) do update set ... created_at = EXCLUDED.created_at,
\* updated_at = EXCLUDED.updated_at (PGDocStatusStorage.upsert).
OnConflictDocStatus(old, new) == new

\* An update that takes every column from the new row.
OnConflictReplaceAll(old, new) == new

\* ON CONFLICT (workspace,id) DO UPDATE SET <data columns>, update_time = ...:
\* create_time is not in the SET list of any upsert_* template.
OnConflictUpdate(old, new) == [new EXCEPT !.create_time = old.create_time]

\* The template PGKVStorage.upsert / PGVectorStorage.upsert picks for a namespace.
upsert_template(f) ==
    IF f.cls = "PGKVStorage"
    THEN IF is_namespace(f.namespace, NameSpace.KV_STORE_TEXT_CHUNKS) THEN "upsert_text_chunk"
         ELSE IF is_namespace(f.namespace, NameSpace.KV_STORE_FULL_DOCS) THEN "upsert_doc_full"
         ELSE IF is_namespace(f.namespace, NameSpace.KV_STORE_LLM_RESPONSE_CACHE)
              THEN "upsert_llm_response_cache"
         ELSE IF is_namespace(f.namespace, NameSpace.KV_STORE_FULL_ENTITIES)
              THEN "upsert_full_entities"
         ELSE IF is_namespace(f.namespace, NameSpace.KV_STORE_FULL_RELATIONS)
              THEN "upsert_full_relations"
         ELSE None
    ELSE IF f.cls = "PGVectorStorage"
    THEN IF is_namespace(f.namespace, NameSpace.VECTOR_STORE_CHUNKS) THEN "upsert_chunk"
         ELSE IF is_namespace(f.namespace, NameSpace.VECTOR_STORE_ENTITIES) THEN "upsert_entity"
         ELSE IF is_namespace(f.namespace, NameSpace.VECTOR_STORE_RELATIONSHIPS)
              THEN "upsert_relationship"
         ELSE None
    ELSE "doc_status"

\* One upsert statement at time t.  The KV and Vector templates write
\* create_time and update_time from current_time, or leave them to DEFAULT
\* CURRENT_TIMESTAMP / update_time = CURRENT_TIMESTAMP (upsert_doc_full,
\* upsert_llm_response_cache); the DocStatus statement writes the timestamps
\* of the value.
UpsertStatement(f, s, w, id, v, t) ==
    LET key == <<w, id>> IN
    IF f.cls = "PGDocStatusStorage"
    THEN LET new == Row(DataColumns(f, v), v.created_at, v.updated_at)
         IN Put(s, key, IF key \in DOMAIN s THEN OnConflictDocStatus(s[key], new) ELSE new)
    ELSE LET new == Row(DataColumns(f, v), t, t)
         IN Put(s, key, IF key \in DOMAIN s THEN OnConflictUpdate(s[key], new) ELSE new)

\* The statements of one upsert call, in the order of data.items().
RECURSIVE UpsertAll(_, _, _, _, _)
UpsertAll(f, s, w, items, t) ==
    IF items = <<>> THEN s
    ELSE UpsertAll(f, UpsertStatement(f, s, w, Head(items)[1], Head(items)[2], t),
                   w, Tail(items), t)

Result(s, result, raised) == [store |-> s, result |-> result, raised |-> raised]

\* The position of the first statement of upsert(data) that raises, 0 when none
\* does: every execute fails, or the statement for one record does.
FirstFailing(items, F) ==
    IF Fails(F, <<"facade", "execute">>) THEN 1
    ELSE LET failing == { i \in DOMAIN items : Fails(F, <<"execute", items[i][1]>>) }
         IN IF failing = {} THEN 0
            ELSE CHOOSE i \in failing : \A j \in failing : i <= j

\* An upsert whose statements are one transaction, rolled back when one raises.
upsert_atomic(f, s, w, items, t, F) ==
    IF items = <<>> THEN Result(s, None, FALSE)
    ELSE IF upsert_template(f) = None THEN Result(s, None, f.cls = "PGVectorStorage")
    ELSE IF FirstFailing(items, F) # 0 THEN Result(s, None, TRUE)
    ELSE Result(UpsertAll(f, s, w, items, t), None, FALSE)

\* upsert(data): nothing for empty data; nothing for a KV namespace without a
\* branch; ValueError for a Vector namespace without a branch; one awaited
\* execute per record in the order of data.items(), each committed on its own
\* (autocommit); the first execute that fails is re-raised and ends the loop.
upsert(f, s, w, items, t, F) ==
    IF items = <<>> THEN Result(s, None, FALSE)
    ELSE IF upsert_template(f) = None THEN Result(s, None, f.cls = "PGVectorStorage")
    ELSE LET k == FirstFailing(items, F)
         IN IF k # 0 THEN Result(UpsertAll(f, s, w, SubSeq(items, 1, k - 1), t), None, TRUE)
            ELSE Result(UpsertAll(f, s, w, items, t), None, FALSE)

\* A DELETE on the ids alone.
DeleteWhereAnyWorkspace(s, w, ids) == Remove(s, { k \in DOMAIN s : k[2] \in ids })

\* The number of statements delete(ids) hands to self.db.execute.
delete_statements(f, ids) ==
    IF ids = <<>> \/ namespace_to_table_name(f.namespace) = None THEN 0 ELSE 1

\* DELETE FROM {table_name} WHERE workspace=$1 AND id = ANY($2)
DeleteWhere(s, w, ids) == Remove(s, { k \in DOMAIN s : k[1] = w /\ k[2] \in ids })

\* delete(ids): nothing for no ids or an unknown namespace; a failing execute
\* is logged and swallowed.
delete(f, s, w, ids, F) ==
    IF ids = <<>> THEN Result(s, None, FALSE)
    ELSE IF namespace_to_table_name(f.namespace) = None THEN Result(s, None, FALSE)
    ELSE IF Fails(F, <<"facade", "execute">>) THEN Result(s, None, FALSE)
    ELSE Result(DeleteWhere(s, w, Range(ids)), None, FALSE)

\* A DELETE without the workspace predicate.
DeleteEveryWorkspace(s, w) == Remove(s, DOMAIN s)

\* SQL_TEMPLATES["drop_specifiy_table_workspace"]: DELETE FROM {table_name} WHERE workspace=$1
DeleteWorkspace(s, w) == Remove(s, { k \in DOMAIN s : k[1] = w })

\* drop() without its try block.
drop_unguarded(f, s, w, F) ==
    IF namespace_to_table_name(f.namespace) = None
    THEN Result(s, [status |-> "error", message |-> "Unknown namespace"], FALSE)
    ELSE IF Fails(F, <<"facade", "execute">>) THEN Result(s, None, TRUE)
    ELSE Result(DeleteWorkspace(s, w), [status |-> "success", message |-> "data dropped"], FALSE)

\* drop(): every exception becomes a status dict.
drop(f, s, w, F) ==
    IF namespace_to_table_name(f.namespace) = None
    THEN Result(s, [status |-> "error", message |-> "Unknown namespace"], FALSE)
    ELSE IF Fails(F, <<"facade", "execute">>)
    THEN Result(s, [status |-> "error", message |-> "exception"], FALSE)
    ELSE Result(DeleteWorkspace(s, w), [status |-> "success", message |-> "data dropped"], FALSE)

\* What get_by_id returns for a stored row: the KV templates select id and the
\* data columns (full_docs without timestamps), and the KV post-processing
\* returns create_time for an update_time of 0; the Vector query returns the
\* whole row and created_at; DocStatus returns the columns without the id.
ReadRow(f, w, id, row) ==
    IF f.cls = "PGKVStorage"
    THEN IF is_namespace(f.namespace, NameSpace.KV_STORE_FULL_DOCS)
         THEN [id |-> id, data |-> row.data]
         ELSE [id |-> id, data |-> ReadData(f, row.data), create_time |-> row.create_time,
               update_time |-> IF row.update_time = 0 THEN row.create_time
                               ELSE row.update_time]
    ELSE IF f.cls = "PGVectorStorage"
    THEN [workspace |-> w, id |-> id, data |-> row.data, create_time |-> row.create_time,
          update_time |-> row.update_time, created_at |-> row.create_time]
    ELSE [data |-> ReadData(f, row.data), created_at |-> row.create_time,
          updated_at |-> row.update_time]

\* None where a row is expected (a record, so that it compares with rows).
NoRow == [none |-> TRUE]

\* ... WHERE workspace=$1 AND id=$2
SelectById(s, w, id) == IF <<w, id>> \in DOMAIN s THEN {s[<<w, id>>]} ELSE {}

\* get_by_id(id).  PGKVStorage looks up SQL_TEMPLATES["get_by_id_" + namespace]
\* and has no try/except, like PGDocStatusStorage; PGVectorStorage returns None
\* for an unknown namespace and for a failing query.
get_by_id(f, s, w, id, F) ==
    LET rows == SelectById(s, w, id)
        found == IF rows = {} THEN NoRow ELSE ReadRow(f, w, id, CHOOSE r \in rows : TRUE)
    IN IF f.cls = "PGVectorStorage"
       THEN IF namespace_to_table_name(f.namespace) = None \/ Fails(F, <<"facade", "query">>)
            THEN Result(s, NoRow, FALSE)
            ELSE Result(s, found, FALSE)
       ELSE IF f.cls = "PGKVStorage"
               /\ f.namespace \notin { NameSpace.KV_STORE_FULL_DOCS,
                                       NameSpace.KV_STORE_TEXT_CHUNKS,
                                       NameSpace.KV_STORE_LLM_RESPONSE_CACHE,
                                       NameSpace.KV_STORE_FULL_ENTITIES,
                                       NameSpace.KV_STORE_FULL_RELATIONS }
            THEN Result(s, NoRow, TRUE)
       ELSE IF Fails(F, <<"facade", "query">>) THEN Result(s, NoRow, TRUE)
       ELSE Result(s, found, FALSE)

\* SELECT id FROM {table_name} WHERE workspace=$1 AND id IN ({ids})
SelectIdsIn(s, w, keys) == { k[2] : k \in { k \in DOMAIN s : k[1] = w /\ k[2] \in keys } }

\* The statement filter_keys builds is one the engine parses: with no key the
\* formatted text ends in `id IN ()`, which is a syntax error.
WellFormedInList(keys) == keys # {}

\* filter_keys(keys): the keys without the ids the query returns; an exception
\* of the query is logged and re-raised.
filter_keys(f, s, w, keys, F) ==
    IF \/ ~WellFormedInList(keys)
       \/ namespace_to_table_name(f.namespace) = None
       \/ Fails(F, <<"facade", "query">>)
    THEN Result(s, None, TRUE)
    ELSE LET exist_keys == SelectIdsIn(s, w, keys)
         IN Result(s, { k \in keys : k \notin exist_keys }, FALSE)

(***************************************************************************)
(* The read paths that return several rows.  A dict result is a function   *)
(* of the id; a list result has the rows in the order of the primary key.  *)
(***************************************************************************)
IdOrder == <<"x", "y">>

\* The ids of S, in the order of the primary key.
Listed(S) == SelectSeq(IdOrder, LAMBDA id : id \in S)

\* SELECT ... WHERE workspace=$1
WorkspaceIds(s, w) == { k[2] : k \in { k \in DOMAIN s : k[1] = w } }

\* A column the read path hands on as the driver returned it: a str with the
\* JSON text, or None.
Raw(cell) == IF cell.null THEN PyNone ELSE [type |-> "json text", items |-> cell.text]

\* PGKVStorage.get_all on a column: SELECT * has no COALESCE, and the branch
\* of the LLM cache does not touch queryparam.
DecodeAll(column, cell) ==
    IF column = "queryparam" THEN Raw(cell) ELSE loads_or(cell, JList(<<>>))

\* if not isinstance(metadata, dict): metadata = {}
EnsureDict(metadata) == IF metadata.type = "dict" THEN metadata ELSE JDict(<<>>)

\* get_docs_by_status and get_docs_by_track_id on a column.
DecodeDoc(column, cell) ==
    IF column = "metadata" THEN EnsureDict(loads_or(cell, JDict(<<>>)))
    ELSE loads_or(cell, JList(<<>>))

\* The row PGKVStorage.get_all returns for a stored row: every column of the
\* table; the branches of the namespaces with a JSON column decode it and
\* return create_time for an update_time of 0.
GetAllRow(f, w, id, row) ==
    IF JsonColumns(f) = {}
    THEN [workspace |-> w, id |-> id, data |-> row.data, create_time |-> row.create_time,
          update_time |-> row.update_time]
    ELSE [workspace |-> w, id |-> id,
          data |-> [row.data EXCEPT
                      !.json = [c \in JsonColumns(f) |-> DecodeAll(c, row.data.json[c])]],
          create_time |-> row.create_time,
          update_time |-> IF row.update_time = 0 THEN row.create_time ELSE row.update_time]

\* The empty dict and the empty list of a result.
EmptyResult == <<>>

\* PGKVStorage.get_all(): {} for an unknown namespace and for a failing query.
get_all(f, s, w, F) ==
    IF namespace_to_table_name(f.namespace) = None \/ Fails(F, <<"facade", "query">>)
    THEN Result(s, EmptyResult, FALSE)
    ELSE Result(s, [id \in WorkspaceIds(s, w) |-> GetAllRow(f, w, id, s[<<w, id>>])], FALSE)

\* The rows of the ids, as get_by_id returns each.
RowsByIds(f, s, w, found) == [i \in DOMAIN found |-> ReadRow(f, w, found[i], s[<<w, found[i]>>])]

\* get_by_ids(ids).  PGKVStorage formats the ids into `id IN ({ids})` and has
\* no try/except; PGDocStatusStorage returns [] for no ids and has no
\* try/except; PGVectorStorage returns [] for no ids, for an unknown namespace
\* and for a failing query.
get_by_ids(f, s, w, ids, F) ==
    IF f.cls = "PGKVStorage"
    THEN IF ~WellFormedInList(Range(ids)) \/ Fails(F, <<"facade", "query">>)
         THEN Result(s, None, TRUE)
         ELSE Result(s, RowsByIds(f, s, w, Listed(SelectIdsIn(s, w, Range(ids)))), FALSE)
    ELSE IF ids = <<>> THEN Result(s, EmptyResult, FALSE)
    ELSE IF f.cls = "PGDocStatusStorage"
    THEN IF Fails(F, <<"facade", "query">>) THEN Result(s, None, TRUE)
         ELSE Result(s, RowsByIds(f, s, w, Listed(SelectIdsIn(s, w, Range(ids)))), FALSE)
    ELSE IF namespace_to_table_name(f.namespace) = None \/ Fails(F, <<"facade", "query">>)
    THEN Result(s, EmptyResult, FALSE)
    ELSE Result(s, RowsByIds(f, s, w, Listed(SelectIdsIn(s, w, Range(ids)))), FALSE)

\* PGVectorStorage.get_vectors_by_ids(ids): the vectors of the rows found.
get_vectors_by_ids(f, s, w, ids, F) ==
    IF \/ ids = <<>>
       \/ namespace_to_table_name(f.namespace) = None
       \/ Fails(F, <<"facade", "query">>)
    THEN Result(s, EmptyResult, FALSE)
    ELSE Result(s, [id \in SelectIdsIn(s, w, Range(ids)) |-> s[<<w, id>>].data.content_vector],
                FALSE)

\* The DocProcessingStatus get_docs_by_status and get_docs_by_track_id build.
DocRow(f, row) ==
    [data |-> [row.data EXCEPT
                 !.json = [c \in JsonColumns(f) |-> DecodeDoc(c, row.data.json[c])]],
     created_at |-> row.create_time, updated_at |-> row.update_time]

\* select * from LIGHTRAG_DOC_STATUS where workspace=$1 and <column>=$2
SelectDocs(s, w, column, value) ==
    { id \in WorkspaceIds(s, w) : s[<<w, id>>].data[column] = value }

\* get_docs_by_status(status) and get_docs_by_track_id(track_id): the query is
\* not in a try block.
get_docs_by(f, s, w, column, value, F) ==
    IF Fails(F, <<"facade", "query">>) THEN Result(s, None, TRUE)
    ELSE Result(s, [id \in SelectDocs(s, w, column, value) |-> DocRow(f, s[<<w, id>>])], FALSE)

get_docs_by_status(f, s, w, status, F) == get_docs_by(f, s, w, "status", status, F)

get_docs_by_track_id(f, s, w, track_id, F) == get_docs_by(f, s, w, "track_id", track_id, F)

\* get_status_counts(): SELECT status, COUNT(1) ... GROUP BY STATUS, not in a
\* try block.
get_status_counts(f, s, w, F) ==
    IF Fails(F, <<"facade", "query">>) THEN Result(s, None, TRUE)
    ELSE LET present == { s[<<w, id>>].data.status : id \in WorkspaceIds(s, w) }
         IN Result(s, [status \in present |->
                          Cardinality(SelectDocs(s, w, "status", status))], FALSE)

(***************************************************************************)
(* Calls on facades of the observed namespace that hold a client handle,   *)
(* one facade per workspace.  A call runs without interleaving with        *)
(* another call on the table.                                              *)
(***************************************************************************)
\* The record of a call; `again` says that it repeats the call before it (same
\* operation, workspace and argument) and that that call had not raised.
StoreCall(op, w, a, at, r, again) ==
    [op |-> op, workspace |-> w, arg |-> a, at |-> at, result |-> r.result,
     raised |-> r.raised, again |-> again]

\* The db calls that raise when the facade of workspace w makes them: the
\* statements the engine fails and, once finalize() has set self.db to None,
\* every self.db.query and self.db.execute (AttributeError).
Faults(w) ==
    IF w \in finalized THEN faulty \cup { <<"facade", "execute">>, <<"facade", "query">> }
    ELSE faulty

NoStoreCall == StoreCall("", "", <<>>, 0, Result(<<>>, None, FALSE), FALSE)

NoPage == [stage |-> "idle"]

\* data of upsert(data), in the order of data.items(): the ids are distinct.
UpsertInputs(f) ==
    { <<>> }
      \cup { << <<id, v>> >> : id \in Ids, v \in Values(f) }
      \cup { << <<"x", v>>, <<"y", v>> >> : v \in Values(f) }

KeySets == { {}, {"x"}, {"x", "y"} }

IdLists == { <<>>, <<"x">>, <<"x", "y">> }

StoreUnchanged ==
    UNCHANGED <<schema, faulty, run, db, ref_count, lock, pc, arg, ret, calls, objs, open,
                issued, ns, finalized, embedding, facades,
          tasks, held, attrs, page>>

Called(op, w, a, r) ==
    /\ step < MaxSteps
    /\ step' = step + 1
    /\ store' = r.store
    /\ lastCall' = StoreCall(op, w, a, now, r,
                              /\ lastCall.op = op /\ lastCall.workspace = w
                              /\ lastCall.arg = a /\ ~lastCall.raised)
    /\ UNCHANGED now
    /\ StoreUnchanged

Upsert(w) ==
    \E items \in UpsertInputs(ns) : Called("upsert", w, items, upsert(ns, store, w, items, now, Faults(w)))

Delete(w) ==
    \E ids \in IdLists : Called("delete", w, ids, delete(ns, store, w, ids, Faults(w)))

Drop(w) == Called("drop", w, <<>>, drop(ns, store, w, Faults(w)))

GetById(w) ==
    \E id \in Ids : Called("get_by_id", w, id, get_by_id(ns, store, w, id, Faults(w)))

FilterKeys(w) ==
    \E keys \in KeySets :
        Called("filter_keys", w, keys, filter_keys(ns, store, w, keys, Faults(w)))

\* finalize(): the facade gives its handle back and sets self.db to None (what
\* release_client does with the handle is in ReleaseClient).
Finalize(w) ==
    /\ step < MaxSteps
    /\ w \notin finalized
    /\ finalized' = finalized \cup {w}
    /\ step' = step + 1
    /\ lastCall' = StoreCall("finalize", w, <<>>, now, Result(store, None, FALSE), FALSE)
    /\ UNCHANGED <<schema, faulty, run, db, ref_count, lock, pc, arg, ret, calls, objs, open,
                   issued, store, ns, now, embedding, facades,
          tasks, held, attrs, page>>

\* Time passes between two calls.
Tick ==
    /\ now < MaxNow
    /\ now' = now + 1
    /\ UNCHANGED <<store, lastCall, step>>
    /\ StoreUnchanged

\* The lists and dicts a caller puts into a JSON-bearing field.
ListsAndDicts ==
    { JList(<<>>), JList(<<"a">>), JList(<<"a", "b">>), JList(<<"b", "a">>),
      JDict(<<>>), JDict(<<"k", "v">>), JDict(<<"k", "v", "l", "u">>) }

\* The records upserted with a payload: a list, a dict or None in the field, or
\* the field left out where upsert reads it with v.get().
Records(f) ==
    IF f.cls = "PGDocStatusStorage"
    THEN { [status |-> v.status, file_path |-> v.file_path, track_id |-> v.track_id,
            created_at |-> v.created_at, updated_at |-> v.updated_at, json |-> j] :
              v \in DocStatusValues \cup {DocUndated, DocBackdated},
              j \in { [c \in JsonColumns(f) |-> x] : x \in ListsAndDicts \cup {Absent} } }
    ELSE IF JsonColumns(f) = {} THEN Contents
    ELSE { JsonRecord(f, "c1", x) :
              x \in ListsAndDicts \cup {PyNone}
                       \cup IF JsonColumns(f) \subseteq {"llm_cache_list", "queryparam"}
                            THEN {Absent} ELSE {} }

UpsertRecord(w) ==
    \E id \in Ids, v \in Records(ns) :
        Called("upsert", w, << <<id, v>> >>, upsert(ns, store, w, << <<id, v>> >>, now, Faults(w)))

GetAll(w) ==
    /\ ns.cls = "PGKVStorage"
    /\ Called("get_all", w, <<>>, get_all(ns, store, w, Faults(w)))

GetByIds(w) ==
    \E ids \in IdLists : Called("get_by_ids", w, ids, get_by_ids(ns, store, w, ids, Faults(w)))

GetVectorsByIds(w) ==
    /\ ns.cls = "PGVectorStorage"
    /\ \E ids \in IdLists :
          Called("get_vectors_by_ids", w, ids, get_vectors_by_ids(ns, store, w, ids, Faults(w)))

GetDocsByStatus(w) ==
    /\ ns.cls = "PGDocStatusStorage"
    /\ \E status \in {"pending", "processed"} :
          Called("get_docs_by_status", w, status,
                 get_docs_by_status(ns, store, w, status, Faults(w)))

GetDocsByTrackId(w) ==
    /\ ns.cls = "PGDocStatusStorage"
    /\ \E track_id \in {"t1", "t2"} :
          Called("get_docs_by_track_id", w, track_id,
                 get_docs_by_track_id(ns, store, w, track_id, Faults(w)))

GetStatusCounts(w) ==
    /\ ns.cls = "PGDocStatusStorage"
    /\ Called("get_status_counts", w, <<>>, get_status_counts(ns, store, w, Faults(w)))

(***************************************************************************)
(* PGVectorStorage.upsert step by step.  The call creates one embedding    *)
(* task per batch and suspends in asyncio.gather; the tasks complete in    *)
(* any order; the call resumes when the last task has completed, or when   *)
(* a task has raised, and then writes one row per record.                  *)
(***************************************************************************)
MaxRecords == 3       \* records in the data of one upsert
MaxBatch == 3         \* embedding_batch_num

RecordIds == <<"r1", "r2", "r3", "r4", "r5", "r6">>

EmbedContents == {"c1", "c2", "c3"}

\* data of upsert(data) in the order of data.items(): pairs of id and content.
VectorData ==
    { <<>> } \cup
    UNION { { [i \in 1..n |-> <<RecordIds[i], c[i]>>] : c \in [1..n -> EmbedContents] } :
            n \in 1..MaxRecords }

\* contents = [v["content"] for v in data.values()]
ContentsOf(data) == [i \in DOMAIN data |-> data[i][2]]

Min(a, b) == IF a < b THEN a ELSE b

\* [contents[i: i + b] for i in range(0, len(contents), b)]
Batches(contents, b) ==
    [k \in 1..((Len(contents) + b - 1) \div b) |->
        SubSeq(contents, (k - 1) * b + 1, Min(k * b, Len(contents)))]

\* embedding_func on a batch: one row per content, in the order of the batch.
embedding_func_batch(batch) == [j \in DOMAIN batch |-> embedding_func(batch[j])]

\* The upsert call in progress.  results[k] is what task k returned (no rows
\* while it runs), completed lists the tasks in the order they completed.
NoUpsert == [stage |-> "idle"]

Gathering(w, data, b, t) ==
    [stage |-> "gather", workspace |-> w, data |-> data, batch_size |-> b,
     batches |-> Batches(ContentsOf(data), b),
     results |-> [k \in DOMAIN Batches(ContentsOf(data), b) |-> <<>>],
     completed |-> <<>>, current_time |-> t]

\* The results in the order the tasks completed.
as_completed(e) == [j \in DOMAIN e.completed |-> e.results[e.completed[j]]]

\* asyncio.gather(*embedding_tasks): the results in the order of the tasks.
gather(e) == e.results

\* np.concatenate(embeddings_list)
RECURSIVE concatenate(_)
concatenate(list) == IF list = <<>> THEN <<>> ELSE Head(list) \o concatenate(Tail(list))

\* d["__vector__"] = embeddings[i] for the i-th record of list_data.
list_data(e) ==
    LET embeddings == concatenate(gather(e))
    IN [i \in DOMAIN e.data |->
           [id |-> e.data[i][1], content |-> e.data[i][2], vector |-> embeddings[i]]]

\* One upsert_chunk / upsert_entity / upsert_relationship statement.
UpsertVector(s, w, item, t) ==
    LET key == <<w, item.id>>
        new == Row([content |-> item.content, content_vector |-> item.vector], t, t)
    IN Put(s, key, IF key \in DOMAIN s THEN OnConflictUpdate(s[key], new) ELSE new)

RECURSIVE UpsertVectors(_, _, _, _)
UpsertVectors(s, w, items, t) ==
    IF items = <<>> THEN s
    ELSE UpsertVectors(UpsertVector(s, w, Head(items), t), w, Tail(items), t)

\* The loop over list_data: ValueError for a namespace without a branch, a
\* failing execute is re-raised.
write_vectors(f, s, w, items, t, F) ==
    IF upsert_template(f) = None THEN Result(s, None, TRUE)
    ELSE IF Fails(F, <<"facade", "execute">>) THEN Result(s, None, TRUE)
    ELSE Result(UpsertVectors(s, w, items, t), None, FALSE)

EmbedUnchanged ==
    UNCHANGED <<schema, faulty, run, db, ref_count, lock, pc, arg, ret, calls, objs, open,
                issued, ns, now, finalized, facades, tasks, held, attrs, page>>

Ended(e, r) ==
    /\ embedding' = [e EXCEPT !.stage = "ended"]
    /\ store' = r.store
    /\ step' = step + 1
    /\ lastCall' = StoreCall("upsert", e.workspace, e.data, now, r, FALSE)

\* upsert(data) up to the await of asyncio.gather; `if not data: return`.
BeginUpsert(w) ==
    /\ embedding.stage = "idle"
    /\ \E data \in VectorData, b \in 1..MaxBatch :
          IF data = <<>>
          THEN Ended([Gathering(w, data, b, now) EXCEPT !.batches = <<>>, !.results = <<>>],
                     Result(store, None, FALSE))
          ELSE /\ embedding' = Gathering(w, data, b, now)
               /\ UNCHANGED <<store, step, lastCall>>
    /\ EmbedUnchanged

\* One embedding task completes.
CompleteTask(k) ==
    /\ embedding.stage = "gather"
    /\ k \in DOMAIN embedding.results
    /\ k \notin Range(embedding.completed)
    /\ ~Fails(faulty, <<"facade", "embedding">>)
    /\ embedding' = [embedding EXCEPT !.results[k] = embedding_func_batch(embedding.batches[k]),
                                      !.completed = Append(@, k)]
    /\ UNCHANGED <<store, step, lastCall>>
    /\ EmbedUnchanged

\* One embedding task raises: gather raises in upsert, nothing is written.
TaskRaises(k) ==
    /\ embedding.stage = "gather"
    /\ k \in DOMAIN embedding.results
    /\ k \notin Range(embedding.completed)
    /\ Fails(faulty, <<"facade", "embedding">>)
    /\ Ended(embedding, Result(store, None, TRUE))
    /\ EmbedUnchanged

\* Every task has completed: upsert resumes after the await and writes.
WriteVectors ==
    /\ embedding.stage = "gather"
    /\ \A k \in DOMAIN embedding.results : k \in Range(embedding.completed)
    /\ Ended(embedding,
             write_vectors(ns, store, embedding.workspace, list_data(embedding),
                           embedding.current_time, Faults(embedding.workspace)))
    /\ EmbedUnchanged

(***************************************************************************)
(* namespace_to_table_name on namespaces with a prefix.                    *)
(***************************************************************************)
MaxPrefix == 2        \* pieces in front of the name a namespace ends with

Pieces ==
    { "_", "x", "full", "text", "docs", "chunks", "entities", "relations", "relationships",
      "cache", "status" }

RECURSIVE Prefixes(_)
Prefixes(n) ==
    IF n = 0 THEN { <<>> }
    ELSE Prefixes(n - 1) \cup { <<p>> \o q : p \in Pieces, q \in { r \in Prefixes(n - 1) : Len(r) = n - 1 } }

\* The registered names, and endings that are not registered.
Endings ==
    { NAMESPACE_TABLE_MAP[i][1] : i \in DOMAIN NAMESPACE_TABLE_MAP }
       \cup { <<>>, <<"x">>, <<"chunks", "_">>, <<"entity">>, <<"full", "_">> }

Namespaces == { p \o e : p \in Prefixes(MaxPrefix), e \in Endings }

\* One call of namespace_to_table_name.
Resolve ==
    /\ step = 0
    /\ step' = 1
    /\ lastCall' = StoreCall("namespace_to_table_name", "", ns.namespace, now,
                              Result(store, namespace_to_table_name(ns.namespace), FALSE), FALSE)
    /\ UNCHANGED <<store, now>>
    /\ StoreUnchanged

(***************************************************************************)
(* PGDocStatusStorage.get_docs_paginated.  sort_direction is a sequence of *)
(* characters, so that lower() and upper() are computed.                   *)
(***************************************************************************)
MaxPage == 3          \* the largest page asked for

Pages == -1 .. MaxPage

PageSizes == { -5, 0, 5, 9, 10, 11, 50, 199, 200, 201, 500 }

SortFields == { "created_at", "updated_at", "id", "file_path", "status", "ID", "Updated_At", "" }

SortDirections ==
    { <<"a", "s", "c">>, <<"A", "S", "C">>, <<"A", "s", "c">>,
      <<"d", "e", "s", "c">>, <<"D", "E", "S", "C">>, <<"D", "e", "s", "c">>,
      <<>>, <<"u", "p">>, <<"a", "s", "c", " ">>, <<"d", "e", "s", "c", "e", "n", "d">> }

StatusFilters == { None, "pending", "processed" }

\* str.lower() and str.upper() on the characters of SortDirections.
LowerCase ==
    [c \in {"A", "S", "C", "D", "E"} |->
        CASE c = "A" -> "a" [] c = "S" -> "s" [] c = "C" -> "c" [] c = "D" -> "d" [] c = "E" -> "e"]

UpperCase ==
    [c \in {"a", "s", "c", "d", "e", "n", "u", "p"} |->
        CASE c = "a" -> "A" [] c = "s" -> "S" [] c = "c" -> "C" [] c = "d" -> "D"
          [] c = "e" -> "E" [] c = "n" -> "N" [] c = "u" -> "U" [] c = "p" -> "P"]

lower(str) == [i \in DOMAIN str |-> IF str[i] \in DOMAIN LowerCase THEN LowerCase[str[i]] ELSE str[i]]

upper(str) == [i \in DOMAIN str |-> IF str[i] \in DOMAIN UpperCase THEN UpperCase[str[i]] ELSE str[i]]

\* Lines 1935-1936.
valid_page(p) == IF p < 1 THEN 1 ELSE p

\* A page size that is used as given.
any_page_size(page_size) == page_size

\* Lines 1937-1940.
valid_page_size(page_size) ==
    IF page_size < 10 THEN 10 ELSE IF page_size > 200 THEN 200 ELSE page_size

\* Lines 1942-1943.
valid_sort_field(sort_field) ==
    IF sort_field \notin {"created_at", "updated_at", "id", "file_path"}
    THEN "updated_at" ELSE sort_field

\* Lines 1945-1946.
valid_sort_direction(sort_direction) ==
    IF lower(sort_direction) \notin { <<"a", "s", "c">>, <<"d", "e", "s", "c">> }
    THEN <<"d", "e", "s", "c">> ELSE sort_direction

\* The parameters after validation, the offset (line 1949) and the direction
\* of the ORDER BY clause (line 1962).
validate(p, page_size, sort_field, sort_direction) ==
    [ page |-> valid_page(p),
      page_size |-> valid_page_size(page_size),
      sort_field |-> valid_sort_field(sort_field),
      sort_direction |-> valid_sort_direction(sort_direction),
      offset |-> (valid_page(p) - 1) * valid_page_size(page_size),
      order_direction |-> upper(valid_sort_direction(sort_direction)) ]

\* Ids of the documents of a table with more rows than the smallest page.
DocIds == << "d01", "d02", "d03", "d04", "d05", "d06", "d07", "d08", "d09", "d10", "d11" >>

\* Their file paths.
DocPaths == << "f01", "f02", "f03", "f04", "f05", "f06", "f07", "f08", "f09", "f10", "f11" >>

\* The place of a string in the engine's collation.
Collated == DocIds \o << "x", "y", "a.txt", "b.txt" >> \o DocPaths

Collation(str) == CHOOSE i \in DOMAIN Collated : Collated[i] = str

SortKey(s, sort_field, k) ==
    CASE sort_field = "created_at" -> s[k].create_time
      [] sort_field = "updated_at" -> s[k].update_time
      [] sort_field = "id" -> Collation(k[2])
      [] sort_field = "file_path" -> Collation(s[k].data.file_path)

\* A WHERE clause without the workspace predicate.
MatchingEveryWorkspace(s, w, status_filter) ==
    { k \in DOMAIN s : status_filter = None \/ s[k].data.status = status_filter }

\* WHERE workspace=$1, and AND status=$2 with a status filter.
Matching(s, w, status_filter) ==
    { k \in DOMAIN s : k[1] = w /\ (status_filter = None \/ s[k].data.status = status_filter) }

\* ORDER BY {sort_field} {direction}: the orders the engine may return the
\* rows in; rows with equal sort keys come in either order.
Foremost(s, keys, sort_field, direction) ==
    { k \in keys :
         \A j \in keys : IF direction = <<"A", "S", "C">>
                          THEN SortKey(s, sort_field, k) <= SortKey(s, sort_field, j)
                          ELSE SortKey(s, sort_field, k) >= SortKey(s, sort_field, j) }

RECURSIVE Orders(_, _, _, _)
Orders(s, keys, sort_field, direction) ==
    IF keys = {} THEN { <<>> }
    ELSE UNION { { <<k>> \o o : o \in Orders(s, keys \ {k}, sort_field, direction) } :
                 k \in Foremost(s, keys, sort_field, direction) }

\* LIMIT $n OFFSET $m
Slice(o, limit, offset) ==
    SubSeq(o, offset + 1, IF offset + limit < Len(o) THEN offset + limit ELSE Len(o))

\* The (doc_id, DocProcessingStatus) tuples built from the rows.
Documents(s, o) ==
    [i \in DOMAIN o |->
        <<o[i][2], ReadRow(DocStatusFacade, o[i][1], o[i][2], s[o[i]])>>]

PageCall(stage, w, args, v, total_count, documents) ==
    [stage |-> stage, workspace |-> w, args |-> args, valid |-> v,
     limit |-> v.page_size, offset |-> v.offset,
     total_count |-> total_count, documents |-> documents]

\* get_docs_paginated: validation, the count query, the page query.  The
\* queries are not guarded: a failing query raises.
GetDocsPaginated(w) ==
    /\ page.stage = "idle"
    /\ \E status_filter \in StatusFilters, p \in Pages, page_size \in PageSizes,
          sort_field \in SortFields, sort_direction \in SortDirections :
          LET args == [status_filter |-> status_filter, page |-> p, page_size |-> page_size,
                       sort_field |-> sort_field, sort_direction |-> sort_direction]
              v == validate(p, page_size, sort_field, sort_direction)
              keys == Matching(store, w, status_filter)
          IN IF Fails(Faults(w), <<"facade", "query">>)
             THEN page' = PageCall("raised", w, args, v, 0, <<>>)
             ELSE \E o \in Orders(store, keys, v.sort_field, v.order_direction) :
                     page' = PageCall("returned", w, args, v, Cardinality(keys),
                                      Documents(store, Slice(o, v.page_size, v.offset)))
    /\ UNCHANGED <<schema, faulty, run, db, ref_count, lock, pc, arg, ret, calls, objs, open,
                   issued, store, ns, now, lastCall, step, finalized, embedding,
                   facades, tasks, held, attrs>>

\* upsert(data) with up to MaxRecords records, in the order of data.items().
BatchInputs(f) ==
    UNION { { [i \in 1..n |-> <<RecordIds[i], v>>], [i \in 1..n |-> <<RecordIds[n + 1 - i], v>>] } :
            n \in 0..MaxRecords, v \in Values(f) }

UpsertBatch(w) ==
    /\ step = 0
    /\ \E items \in BatchInputs(ns) :
          Called("upsert", w, items, upsert(ns, store, w, items, now, Faults(w)))

(***************************************************************************)
(* Lifecycle of the facades: initialize, finalize and drop step by step.   *)
(* get_storage_lock() and get_data_init_lock() each return one lock of the *)
(* process.  A coroutine runs from one suspension point to the next: it is *)
(* suspended while it waits for a lock another coroutine holds and while   *)
(* it awaits the database; entering a free lock and returning from a call  *)
(* do not suspend it.  A coroutine that can continue without suspension    *)
(* (Ready) does so before any other coroutine takes a step.                *)
(***************************************************************************)
MaxCalls == 3         \* initialize / finalize / drop calls in one behaviour

FacadeObjs == {"f1", "f2"}

\* The object has no such attribute.
Missing == "AttributeError"

\* ADBMYSQL.__init__ assigns config and pool, no workspace.
BuiltAttr == Missing

\* ADBMYSQL.__init__ assigning workspace from its config.
ConfiguredAttr == "B"

\* A facade object; acquired and initialized are history: its initialize took
\* the handle from get_client, its initialize returned and no finalize since.
FacadeObj(d, w) == [db |-> d, workspace |-> w, acquired |-> FALSE, initialized |-> FALSE]

NoTask == [method |-> "", facade |-> "", stage |-> "idle", outcome |-> ""]

Running(m, f) == [method |-> m, facade |-> f, stage |-> "lock", outcome |-> ""]

LifeIdle ==
    /\ facades = [f \in FacadeObjs |-> FacadeObj(NoObj, "")]
    /\ tasks = [p \in Procs |-> NoTask]
    /\ held = [storage_lock |-> NoProc, data_init_lock |-> NoProc]
    /\ attrs = [o \in 1..Foreign |-> BuiltAttr]

\* The lock a method enters first: lines 817, 833, 1248.
LockOf(m) == IF m = "initialize" THEN "data_init_lock" ELSE "storage_lock"

\* Lines 821-830: ADB.workspace > self.workspace > "default".
WorkspacePriority(attr, own) ==
    IF attr # "" THEN attr ELSE IF own # "" THEN own ELSE "default"

\* Lines 822-830 on a facade whose db is set: AttributeError when the object
\* has no workspace.
ResolveWorkspace(fo) ==
    IF attrs[fo.db] = Missing THEN [facade |-> fo, raised |-> TRUE]
    ELSE [facade |-> [fo EXCEPT !.workspace = WorkspacePriority(attrs[fo.db], fo.workspace),
                                !.initialized = TRUE],
          raised |-> FALSE]

HowEnded(raised) == IF raised THEN "raised" ELSE "returned"

Ready(q) ==
    \/ tasks[q].stage = "lock" /\ held[LockOf(tasks[q].method)] = NoProc
    \/ /\ pc[q] \in {"get_client", "release_client"}
       /\ lock = NoProc
       /\ (pc[q] = "get_client" /\ RegistryEmpty) => objs < MaxObjs
    \/ tasks[q].stage \in {"get_client", "release_client"} /\ pc[q] = "idle"

Turn(p) == Ready(p) \/ \A q \in Procs : ~Ready(q)

LifeUnchanged ==
    UNCHANGED <<schema, faulty, run, db, ref_count, lock, objs, open, issued, ns, now,
                lastCall, finalized, embedding, attrs, page>>

\* A coroutine calls a method of a facade and reaches its `async with`.
CallMethod(p, f, m) ==
    /\ tasks[p].stage = "idle"
    /\ pc[p] = "idle"
    /\ step < MaxCalls
    /\ step' = step + 1
    /\ tasks' = [tasks EXCEPT ![p] = Running(m, f)]
    /\ UNCHANGED <<facades, held, pc, arg, ret, calls, store>>
    /\ LifeUnchanged

CallInitialize(p, f) == CallMethod(p, f, "initialize")

CallFinalize(p, f) == CallMethod(p, f, "finalize")

CallDrop(p, f) == CallMethod(p, f, "drop")

\* initialize, lines 817-819: with db None up to `async with cls._lock` of
\* get_client; with db set, lines 817-830 without suspension.
EnterInitialize(p) ==
    LET f == tasks[p].facade
        lk == LockOf("initialize")
    IN /\ tasks[p].stage = "lock" /\ tasks[p].method = "initialize"
       /\ held[lk] = NoProc
       /\ IF facades[f].db = NoObj
          THEN /\ held' = [held EXCEPT ![lk] = p]
               /\ tasks' = [tasks EXCEPT ![p].stage = "get_client"]
               /\ pc' = [pc EXCEPT ![p] = "get_client"]
               /\ ret' = [ret EXCEPT ![p] = Pending]
               /\ calls' = [calls EXCEPT ![p] = NoCall]
               /\ UNCHANGED facades
          ELSE LET r == ResolveWorkspace(facades[f])
               IN /\ facades' = [facades EXCEPT ![f] = r.facade]
                  /\ tasks' = [tasks EXCEPT ![p].stage = "idle",
                                            ![p].outcome = HowEnded(r.raised)]
                  /\ UNCHANGED <<held, pc, ret, calls>>
       /\ UNCHANGED <<step, arg, store>>
       /\ LifeUnchanged

\* get_client has returned or raised: lines 819-830 and the end of the
\* `async with`.
ResumeInitialize(p) ==
    LET f == tasks[p].facade
    IN /\ tasks[p].stage = "get_client" /\ pc[p] = "idle"
       /\ held' = [held EXCEPT ![LockOf("initialize")] = NoProc]
       /\ IF ret[p].kind = "handle"
          THEN LET r == ResolveWorkspace([facades[f] EXCEPT !.db = ret[p].obj,
                                                            !.acquired = TRUE])
               IN /\ facades' = [facades EXCEPT ![f] = r.facade]
                  /\ tasks' = [tasks EXCEPT ![p].stage = "idle",
                                            ![p].outcome = HowEnded(r.raised)]
          ELSE /\ tasks' = [tasks EXCEPT ![p].stage = "idle", ![p].outcome = "raised"]
               /\ UNCHANGED facades
       /\ UNCHANGED <<step, pc, arg, ret, calls, store>>
       /\ LifeUnchanged

\* finalize, lines 833-835: up to `async with cls._lock` of release_client, or
\* to the end when db is None.
EnterFinalize(p) ==
    LET f == tasks[p].facade
        lk == LockOf("finalize")
    IN /\ tasks[p].stage = "lock" /\ tasks[p].method = "finalize"
       /\ held[lk] = NoProc
       /\ IF facades[f].db # NoObj
          THEN /\ held' = [held EXCEPT ![lk] = p]
               /\ tasks' = [tasks EXCEPT ![p].stage = "release_client"]
               /\ pc' = [pc EXCEPT ![p] = "release_client"]
               /\ arg' = [arg EXCEPT ![p] = facades[f].db]
               /\ ret' = [ret EXCEPT ![p] = Pending]
               /\ calls' = [calls EXCEPT ![p] = NoCall]
          ELSE /\ tasks' = [tasks EXCEPT ![p].stage = "idle", ![p].outcome = "returned"]
               /\ UNCHANGED <<held, pc, arg, ret, calls>>
       /\ UNCHANGED <<facades, step, store>>
       /\ LifeUnchanged

\* release_client has returned: line 836 and the end of the `async with`.
ResumeFinalize(p) ==
    LET f == tasks[p].facade
    IN /\ tasks[p].stage = "release_client" /\ pc[p] = "idle"
       /\ held' = [held EXCEPT ![LockOf("finalize")] = NoProc]
       /\ facades' = [facades EXCEPT ![f].db = NoObj, ![f].acquired = FALSE,
                                     ![f].initialized = FALSE]
       /\ tasks' = [tasks EXCEPT ![p].stage = "idle", ![p].outcome = "returned"]
       /\ UNCHANGED <<step, pc, arg, ret, calls, store>>
       /\ LifeUnchanged

\* drop, lines 1248-1260: up to the await of self.db.execute; without a table
\* or with db None (AttributeError, caught) to the end.
EnterDrop(p) ==
    LET f == tasks[p].facade
        lk == LockOf("drop")
    IN /\ tasks[p].stage = "lock" /\ tasks[p].method = "drop"
       /\ held[lk] = NoProc
       /\ IF namespace_to_table_name(ns.namespace) = None \/ facades[f].db = NoObj
          THEN /\ tasks' = [tasks EXCEPT ![p].stage = "idle", ![p].outcome = "error"]
               /\ UNCHANGED held
          ELSE /\ held' = [held EXCEPT ![lk] = p]
               /\ tasks' = [tasks EXCEPT ![p].stage = "execute"]
       /\ UNCHANGED <<facades, step, pc, arg, ret, calls, store>>
       /\ LifeUnchanged

\* self.db.execute of drop completes, or raises (the engine makes it fail, the
\* pool of db is closed): lines 1260-1263 and the end of the `async with`.
DropDone(p) ==
    LET f == tasks[p].facade
        F == IF facades[f].db \in open THEN faulty ELSE faulty \cup { <<"facade", "execute">> }
        r == drop(ns, store, facades[f].workspace, F)
    IN /\ tasks[p].stage = "execute"
       /\ held' = [held EXCEPT ![LockOf("drop")] = NoProc]
       /\ store' = r.store
       /\ tasks' = [tasks EXCEPT ![p].stage = "idle", ![p].outcome = r.result.status]
       /\ UNCHANGED <<facades, step, pc, arg, ret, calls>>
       /\ LifeUnchanged

(***************************************************************************)
(* Specifications.                                                         *)
(***************************************************************************)
ClientIdle ==
    /\ db = NoObj
    /\ ref_count = 0
    /\ lock = NoProc
    /\ pc = [p \in Procs |-> "idle"]
    /\ arg = [p \in Procs |-> NoObj]
    /\ ret = [p \in Procs |-> Returned]
    /\ calls = [p \in Procs |-> NoCall]
    /\ objs = 0
    /\ open = {}
    /\ issued = {}

StoreIdle ==
    /\ store = <<>>
    /\ ns = NoFacade
    /\ now = 1
    /\ lastCall = NoStoreCall
    /\ step = 0
    /\ finalized = {}
    /\ embedding = NoUpsert
    /\ LifeIdle
    /\ page = NoPage

\* Spec: callers of ClientManager on one database.
Init ==
    /\ schema \in ClientInitSchemas
    /\ faulty = {}
    /\ run = NoRun
    /\ ClientIdle
    /\ StoreIdle

Next ==
    \E p \in Procs :
        \/ CallGetClient(p)
        \/ GetClientExisting(p)
        \/ GetClientCreate(p)
        \/ InitDb(p)
        \/ CheckTables(p)
        \/ CallReleaseClient(p)
        \/ ReleaseClient(p)
        \/ ClosePool(p)

Spec == Init /\ [][Next]_vars

\* SpecMig: check_tables called directly on a database of InitSchemas.
RunCheckTables ==
    /\ run.n < MaxRuns
    /\ run' = RunOf(schema, faulty, run.n + 1)
    /\ schema' = run'.db
    /\ UNCHANGED <<faulty, db, ref_count, lock, pc, arg, ret, calls, objs, open, issued,
                   store, ns, now, lastCall, step, finalized,
                   embedding, facades,
          tasks, held, attrs, page>>

MigInit ==
    /\ schema \in InitSchemas
    /\ faulty \in FaultSets
    /\ run = NoRun
    /\ ClientIdle
    /\ StoreIdle

MigNext == RunCheckTables

SpecMig == MigInit /\ [][MigNext]_vars

\* SpecStore: calls on the facades of one namespace in two workspaces, with the
\* engine up or down.
StoreFaultSets == { {}, { <<"facade", "execute">>, <<"facade", "query">> } }

\* The table is empty, or each workspace has upserted a row with the id "x".
InitStores(f) ==
    IF namespace_to_table_name(f.namespace) = None THEN { <<>> }
    ELSE LET v == CHOOSE u \in Values(f) : TRUE
         IN { <<>>,
              UpsertAll(f, UpsertAll(f, <<>>, "A", << <<"x", v>> >>, 1),
                        "B", << <<"x", v>> >>, 1) }

StoreInit ==
    /\ schema = CurrentSchema
    /\ faulty \in StoreFaultSets
    /\ run = NoRun
    /\ ClientIdle
    /\ ns \in Facades \cup UnknownFacades
    /\ store \in InitStores(ns)
    /\ now = 1
    /\ lastCall = NoStoreCall
    /\ step = 0
    /\ finalized = {}
    /\ embedding = NoUpsert
    /\ LifeIdle
    /\ page = NoPage

StoreNext ==
    \/ \E w \in Workspaces :
          \/ Upsert(w)
          \/ Delete(w)
          \/ Drop(w)
          \/ GetById(w)
          \/ FilterKeys(w)
          \/ Finalize(w)
    \/ Tick

SpecStore == StoreInit /\ [][StoreNext]_vars

\* SpecRead: the read paths on a table that holds rows written by this code
\* and rows it did not write: a JSON-bearing column is NULL or holds a text
\* that need not be JSON (a table created with TEXT columns, a row another
\* program wrote), and update_time may be the zero timestamp.
StoredTexts ==
    { <<"[", "]">>, <<"[", "a", ",", "b", "]">>, <<"{", "}">>, <<"{", "k", ":", "v", "}">>,
      <<"null">>, <<"a">>,
      <<>>, <<"[", "a">>, <<"{", "k", "}">>, <<"[", "a", ",", "]">> }

StoredCells == {NullCell} \cup { Cell(text) : text \in StoredTexts }

\* The data columns of a row with the cell in each JSON-bearing column.
StoredData(f, cell) ==
    IF JsonColumns(f) = {} THEN DataColumns(f, CHOOSE u \in Values(f) : TRUE)
    ELSE [DataColumns(f, CHOOSE u \in Values(f) : TRUE)
             EXCEPT !.json = [c \in JsonColumns(f) |-> cell]]

ReadStores(f) ==
    { <<>> } \cup
    { Put(Put(<<>>, <<"A", "x">>, Row(StoredData(f, cell), 1, update_time)),
          <<"B", "x">>, Row(StoredData(f, Cell(<<"[", "]">>)), 1, 1)) :
         cell \in IF JsonColumns(f) = {} THEN {NullCell} ELSE StoredCells,
         update_time \in {NullTime, 0, 1} }

ReadInit ==
    /\ schema = CurrentSchema
    /\ faulty \in StoreFaultSets
    /\ run = NoRun
    /\ ClientIdle
    /\ ns \in Facades
    /\ store \in ReadStores(ns)
    /\ now = 1
    /\ lastCall = NoStoreCall
    /\ step = 0
    /\ finalized = {}
    /\ embedding = NoUpsert
    /\ LifeIdle
    /\ page = NoPage

\* A behaviour of SpecRead is at most one upsert and then one read: a read
\* leaves the table as it is, so a call after it sees what it would have seen
\* without the read.
BeforeRead == lastCall.op \in {"", "upsert"}

ReadNext ==
    \E w \in Workspaces :
        \/ lastCall.op = "" /\ UpsertRecord(w)
        \/ BeforeRead /\ GetById(w)
        \/ BeforeRead /\ GetByIds(w)
        \/ BeforeRead /\ GetAll(w)
        \/ BeforeRead /\ GetVectorsByIds(w)
        \/ BeforeRead /\ GetDocsByStatus(w)
        \/ BeforeRead /\ GetDocsByTrackId(w)
        \/ BeforeRead /\ GetStatusCounts(w)
        \/ BeforeRead /\ FilterKeys(w)

SpecRead == ReadInit /\ [][ReadNext]_vars

\* SpecRoute: namespace_to_table_name on a namespace with a prefix.
RouteInit ==
    /\ schema = CurrentSchema
    /\ faulty = {}
    /\ run = NoRun
    /\ ClientIdle
    /\ ns \in { Facade("", n) : n \in Namespaces }
    /\ store = <<>>
    /\ now = 1
    /\ lastCall = NoStoreCall
    /\ step = 0
    /\ finalized = {}
    /\ embedding = NoUpsert
    /\ LifeIdle
    /\ page = NoPage

RouteNext == Resolve

SpecRoute == RouteInit /\ [][RouteNext]_vars

\* SpecEmbed: one PGVectorStorage.upsert call with its embedding tasks, on a
\* table that is empty or holds rows written earlier.
EmbedFacades ==
    { Facade("PGVectorStorage", n) :
         n \in { NameSpace.VECTOR_STORE_CHUNKS, NameSpace.VECTOR_STORE_ENTITIES, <<"graph">> } }

EmbedStores ==
    { <<>>,
      Put(Put(<<>>, <<"A", "r1">>, Row([content |-> "c3", content_vector |-> embedding_func("c3")], 0, 0)),
          <<"B", "r2">>, Row([content |-> "c1", content_vector |-> embedding_func("c1")], 0, 0)) }

EmbedInit ==
    /\ schema = CurrentSchema
    /\ faulty \in { {}, { <<"facade", "execute">> }, { <<"facade", "embedding">> } }
    /\ run = NoRun
    /\ ClientIdle
    /\ ns \in EmbedFacades
    /\ store \in EmbedStores
    /\ now = 1
    /\ lastCall = NoStoreCall
    /\ step = 0
    /\ finalized = {}
    /\ embedding = NoUpsert
    /\ LifeIdle
    /\ page = NoPage

EmbedNext ==
    \/ \E w \in Workspaces : BeginUpsert(w)
    \/ \E k \in 1..MaxRecords : CompleteTask(k)
    \/ \E k \in 1..MaxRecords : TaskRaises(k)
    \/ WriteVectors

SpecEmbed == EmbedInit /\ [][EmbedNext]_vars

\* SpecPage: one get_docs_paginated call on a LIGHTRAG_DOC_STATUS table.

\* The i-th document of a table of Len(DocIds) documents: the creation times
\* rise and the update times fall with i, every second one is processed.
Doc(i) ==
    [status |-> IF i % 2 = 0 THEN "processed" ELSE "pending", file_path |-> DocPaths[i],
     track_id |-> "t1", created_at |-> i, updated_at |-> Len(DocIds) + Len(DocIds) - i]

PageStores ==
    LET f == DocStatusFacade IN
    { <<>>,
      UpsertAll(f, UpsertAll(f, <<>>, "A", [i \in DOMAIN DocIds |-> <<DocIds[i], Doc(i)>>], 1),
                "B", << <<"x", DocProcessed>> >>, 1),
      UpsertAll(f, UpsertAll(f, <<>>, "A", << <<"x", DocPending>>, <<"y", DocProcessed>> >>, 1),
                "B", << <<"x", DocProcessed>> >>, 1),
      UpsertAll(f, <<>>, "A", << <<"x", DocPending>>, <<"y", DocPending>> >>, 1) }

PageInit ==
    /\ schema = CurrentSchema
    /\ faulty \in StoreFaultSets
    /\ run = NoRun
    /\ ClientIdle
    /\ ns = DocStatusFacade
    /\ store \in PageStores
    /\ now = 1
    /\ lastCall = NoStoreCall
    /\ step = 0
    /\ finalized = {}
    /\ embedding = NoUpsert
    /\ LifeIdle
    /\ page = NoPage

PageNext == \E w \in Workspaces : GetDocsPaginated(w)

SpecPage == PageInit /\ [][PageNext]_vars

\* SpecBatch: one upsert of several records on a table that is empty or holds
\* an older row of the second record; no statement fails, every statement
\* fails, or the statement of one record fails.
BatchFaultSets ==
    { {}, { <<"facade", "execute">> } } \cup { { <<"execute", RecordIds[k]>> } : k \in 1..MaxRecords }

BatchStores(f) ==
    LET v == CHOOSE u \in Values(f) : TRUE
    IN { <<>>, UpsertAll(f, <<>>, "A", << <<RecordIds[2], v>> >>, 0) }

BatchInit ==
    /\ schema = CurrentSchema
    /\ faulty \in BatchFaultSets
    /\ run = NoRun
    /\ ClientIdle
    /\ ns \in Facades
    /\ store \in BatchStores(ns)
    /\ now = 1
    /\ lastCall = NoStoreCall
    /\ step = 0
    /\ finalized = {}
    /\ embedding = NoUpsert
    /\ LifeIdle
    /\ page = NoPage

BatchNext == \E w \in Workspaces : UpsertBatch(w)

SpecBatch == BatchInit /\ [][BatchNext]_vars

\* SpecLife: up to MaxCalls initialize / finalize / drop calls of two coroutines
\* on two facades of one namespace.  A facade is built without db or with a
\* db: the object an earlier get_client of the application returned, or an
\* object the application built itself and gave a workspace or not.
LifeStores ==
    { Put(Put(Put(<<>>, <<"A", "x">>, Row([content |-> "c1"], 1, 1)),
              <<"B", "x">>, Row([content |-> "c1"], 1, 1)),
          <<"default", "x">>, Row([content |-> "c1"], 1, 1)) }

\* The registry, the open pools and what the facades were built with.
LifeSetups ==
    { [db |-> NoObj, ref_count |-> 0, objs |-> 0, open |-> {},
       f1 |-> NoObj, f2 |-> NoObj, own |-> "A", attr |-> Missing],
      [db |-> 1, ref_count |-> 1, objs |-> 1, open |-> {1},
       f1 |-> NoObj, f2 |-> 1, own |-> "", attr |-> Missing],
      [db |-> NoObj, ref_count |-> 0, objs |-> 0, open |-> {Foreign},
       f1 |-> Foreign, f2 |-> Foreign, own |-> "A", attr |-> ConfiguredAttr],
      [db |-> NoObj, ref_count |-> 0, objs |-> 0, open |-> {Foreign},
       f1 |-> Foreign, f2 |-> NoObj, own |-> "A", attr |-> ""],
      [db |-> NoObj, ref_count |-> 0, objs |-> 0, open |-> {Foreign},
       f1 |-> Foreign, f2 |-> Foreign, own |-> "", attr |-> ""] }

LifeInit ==
    /\ schema = CurrentSchema
    /\ faulty = {}
    /\ run = NoRun
    /\ lock = NoProc
    /\ pc = [p \in Procs |-> "idle"]
    /\ arg = [p \in Procs |-> NoObj]
    /\ ret = [p \in Procs |-> Returned]
    /\ calls = [p \in Procs |-> NoCall]
    /\ \E u \in LifeSetups :
          /\ db = u.db /\ ref_count = u.ref_count /\ objs = u.objs /\ open = u.open
          /\ issued = u.open \ {Foreign}
          /\ facades = [f \in FacadeObjs |-> FacadeObj(IF f = "f1" THEN u.f1 ELSE u.f2, u.own)]
          /\ attrs = [o \in 1..Foreign |-> IF o = Foreign THEN u.attr ELSE BuiltAttr]
    /\ tasks = [p \in Procs |-> NoTask]
    /\ held = [storage_lock |-> NoProc, data_init_lock |-> NoProc]
    /\ ns \in { Facade("PGKVStorage", NameSpace.KV_STORE_FULL_DOCS) }
    /\ store \in LifeStores
    /\ now = 1
    /\ lastCall = NoStoreCall
    /\ step = 0
    /\ finalized = {}
    /\ embedding = NoUpsert
    /\ page = NoPage

LifeNext ==
    \E p \in Procs :
        \/ Turn(p) /\ (\E f \in FacadeObjs : CallInitialize(p, f))
        \/ Turn(p) /\ (\E f \in FacadeObjs : CallFinalize(p, f))
        \/ Turn(p) /\ (\E f \in FacadeObjs : CallDrop(p, f))
        \/ Turn(p) /\ EnterInitialize(p)
        \/ Turn(p) /\ ResumeInitialize(p)
        \/ Turn(p) /\ EnterFinalize(p)
        \/ Turn(p) /\ ResumeFinalize(p)
        \/ Turn(p) /\ EnterDrop(p)
        \/ Turn(p) /\ DropDone(p)
        \/ Turn(p) /\ GetClientExisting(p)
        \/ Turn(p) /\ GetClientCreate(p)
        \/ Turn(p) /\ InitDb(p)
        \/ Turn(p) /\ CheckTables(p)
        \/ Turn(p) /\ ReleaseClient(p)
        \/ Turn(p) /\ ClosePool(p)

SpecLife == LifeInit /\ [][LifeNext]_vars

(***************************************************************************)
(* Properties of ClientManager (specification Spec).                       *)
(***************************************************************************)
Creating == { p \in Procs : pc[p] \in {"initdb", "check_tables"} }

\* p's get_client call returns a handle in this step.
ReturnsHandle(p) == ret[p].kind = "pending" /\ ret'[p].kind = "handle"

\* Claim C1: a get_client call that finds the registry empty returns its handle
\* only after its initdb and its check_tables have completed; a call that finds
\* the registry non-empty returns the registered handle and adds exactly one to
\* ref_count without running initdb or check_tables; at most one caller is
\* inside initdb/check_tables, only while the registry is empty, and each
\* empty-to-non-empty transition of the registry is made by a call that ran
\* initdb once and check_tables once.
C1_GetClientOnce ==
    [][ /\ \A p \in Procs :
            ReturnsHandle(p) =>
               IF calls'[p].found = "empty"
               THEN /\ calls'[p].initdb = 1 /\ calls'[p].check_tables = 1
                    /\ pc[p] = "check_tables"
                    /\ ~run'.raised /\ run'.pre = schema /\ schema' = run'.db
                    /\ ret'[p].obj = calls'[p].obj /\ ret'[p].obj \in open'
                    /\ db = NoObj /\ db' = ret'[p].obj /\ ref_count' = 1
               ELSE /\ calls'[p].found = "nonempty"
                    /\ calls'[p].initdb = 0 /\ calls'[p].check_tables = 0
                    /\ db # NoObj /\ db' = db /\ ret'[p].obj = db
                    /\ ref_count' = ref_count + 1
                    /\ run' = run /\ schema' = schema /\ open' = open /\ objs' = objs
        /\ (db = NoObj /\ db' # NoObj) =>
               \E p \in Procs : /\ ReturnsHandle(p) /\ calls'[p].obj = db'
                                /\ calls'[p].initdb = 1 /\ calls'[p].check_tables = 1
        /\ Cardinality(Creating') <= 1
        /\ Creating' # {} => db' = NoObj
      ]_vars

\* Two callers hold the same handle: one built it, the other found it registered.
W_C1 ==
    \E p, q \in Procs :
        /\ ret[p] = Handle(db) /\ calls[p].found = "empty" /\ calls[p].check_tables = 1
        /\ ret[q] = Handle(db) /\ calls[q].found = "nonempty"
        /\ db # NoObj /\ ref_count = 2

C3_CreationFailure ==
    [][ /\ \A p \in Procs :
            (pc[p] \in {"initdb", "check_tables"} /\ pc'[p] = "idle" /\ ret'[p].kind # "handle")
            => /\ ret'[p] = Raised
               /\ db = NoObj /\ db' = NoObj
               /\ ref_count' = ref_count /\ ref_count' = 0
               /\ lock = p /\ lock' = NoProc
               /\ calls'[p].obj \notin issued'
        /\ \A p \in Procs :
            (pc[p] = "get_client" /\ pc'[p] = "initdb")
            => /\ db = NoObj /\ calls'[p].obj = objs' /\ objs' = objs + 1
               /\ calls'[p].obj \notin open /\ calls'[p].obj \notin issued
               /\ calls'[p].initdb = 0 /\ calls'[p].check_tables = 0
      ]_vars

\* A first creation failed in check_tables, and a retry registered a second object.
W_C3 ==
    /\ db = 2 /\ ref_count = 1 /\ 1 \notin issued /\ 1 \in open
    /\ \E p \in Procs : ret[p] = Handle(2) /\ calls[p].check_tables = 1

(***************************************************************************)
(* Properties of check_tables (specification SpecMig).                     *)
(***************************************************************************)
\* Claim C7: the second of two successive check_tables runs on a database,
\* with no statement failing, raises nothing, executes no DDL or DML in the
\* ensure phase or in any structural step, and leaves schema and data as the
\* first run left them.
C7_SecondRunNoOp ==
    (run.n = 2 /\ \A l \in faulty : l[1] \notin {"probe", "ddl"}) =>
        /\ ~run.raised
        /\ run.db = run.pre
        /\ run.wrote = <<>>
        /\ \A i \in DOMAIN run.ensure : run.ensure[i].ddl = "none"
        /\ Len(run.steps) = Len(Migrations)
        /\ \A i \in DOMAIN run.steps : run.steps[i].wrote = 0 /\ ~run.steps[i].changed

\* The first run migrated old-format cache rows; the second run found them migrated.
W_C7 == run.n = 2 /\ faulty = {} /\ ~run.raised /\ run.pre.cacheTouched > 0 /\ run.db = run.pre

\* The creation DDL of no table raised in the last run.
EnsureSucceeded == \A i \in DOMAIN run.ensure : run.ensure[i].ddl # "raised"

\* The statement as given: check_tables returns normally, every step is
\* attempted, and every step in which a statement failed left the database
\* as it found it.
C8_FailedStepLeavesPriorShape ==
    (run.n >= 1 /\ EnsureSucceeded) =>
        /\ ~run.raised
        /\ Len(run.steps) = Len(Migrations)
        /\ \A i \in DOMAIN run.steps : run.steps[i].failed => ~run.steps[i].changed

\* Claim C8: once the ensure phase has succeeded, check_tables returns
\* normally whatever statement of a structural step fails, every step is
\* attempted in the fixed order, a failing statement has no effect, and a step
\* that fails before its first write leaves the database as it found it (the
\* writes a step completed before its failure stay).
C8_FaultIsolation ==
    (run.n >= 1 /\ EnsureSucceeded) =>
        /\ ~run.raised
        /\ Len(run.steps) = Len(Migrations)
        /\ \A i \in DOMAIN run.steps :
              /\ run.steps[i].name = Migrations[i]
              /\ (run.steps[i].failed /\ run.steps[i].wrote = 0) => ~run.steps[i].changed
        /\ \A l \in Range(run.wrote) : l \notin faulty

\* A step failed after one of its statements had written, and a later step
\* still did its work.
W_C8 ==
    /\ run.n >= 1 /\ EnsureSucceeded /\ ~run.raised
    /\ \E i, j \in DOMAIN run.steps :
          /\ i < j
          /\ run.steps[i].failed /\ run.steps[i].changed
          /\ run.steps[j].wrote > 0

\* The probe of table t raises in a run on database d under the faults F.
ProbeRaises(t, d, F) == t \notin d.tables \/ Fails(F, <<"probe", t>>)

\* Claim C9: in the check_tables run of a get_client call, a table's creation
\* DDL is executed exactly when its existence probe raised; when a creation
\* DDL raises, check_tables raises, no structural step has run, get_client
\* raises to its caller, nothing is registered and no handle is issued.
C9_TableEnsure ==
    [][ \A p \in Procs :
          (pc[p] = "check_tables" /\ pc'[p] = "idle") =>
             /\ run'.pre = schema
             /\ \A i \in DOMAIN run'.ensure :
                   /\ run'.ensure[i].table = TABLES[i]
                   /\ (run'.ensure[i].ddl # "none") <=> (run'.ensure[i].probe = "raised")
             /\ \A t \in TableNames :
                   <<"ddl", t>> \in Range(run'.wrote) =>
                      (ProbeRaises(t, schema, run'.F) /\ t \in schema'.tables)
             /\ (\E t \in TableNames :
                     /\ ProbeRaises(t, schema, run'.F)
                     /\ (Fails(run'.F, <<"ddl", t>>) \/ t \in schema.tables))
                => /\ run'.raised /\ run'.steps = <<>>
                   /\ \E i \in DOMAIN run'.ensure : run'.ensure[i].ddl = "raised"
                   /\ ret'[p] = Raised
                   /\ db' = NoObj /\ ref_count' = ref_count /\ issued' = issued
             /\ (~run'.raised) =>
                   /\ Len(run'.ensure) = Len(TABLES)
                   /\ TableNames \subseteq schema'.tables
      ]_vars

\* On a database without tables the DDL of the last table failed after the
\* earlier tables had been created: get_client raised and registered nothing.
W_C9 ==
    /\ run.raised /\ run.steps = <<>> /\ db = NoObj /\ issued = {}
    /\ \E i \in DOMAIN run.ensure : run.ensure[i].ddl = "raised"
    /\ \E i \in DOMAIN run.ensure : run.ensure[i].ddl = "ok"
    /\ \E p \in Procs : ret[p] = Raised /\ calls[p].check_tables = 1

(***************************************************************************)
(* Properties of the storage facades (specification SpecStore).            *)
(***************************************************************************)
\* A facade call is made in this step.
FacadeStep == step' = step + 1

\* Claim C4: a call on a facade bound to workspace w leaves every row of
\* every other workspace in the table as it was, whether the call is upsert,
\* delete, drop or a read; and get_by_id(x) on that facade returns None or the
\* row stored under <<w, x>>, never a row another workspace upserted.
C4_WorkspaceIsolation ==
    [][ FacadeStep =>
          LET w == lastCall'.workspace IN
          /\ \A k \in Keys :
                k[1] # w => /\ (k \in DOMAIN store') <=> (k \in DOMAIN store)
                            /\ k \in DOMAIN store => store'[k] = store[k]
          /\ lastCall'.op = "get_by_id" =>
                \/ lastCall'.result = NoRow
                \/ /\ <<w, lastCall'.arg>> \in DOMAIN store
                   /\ lastCall'.result = ReadRow(ns, w, lastCall'.arg, store[<<w, lastCall'.arg>>])
      ]_vars

\* drop() under A removed A's row with id "x"; B's row with the same id is there.
W_C4 ==
    /\ lastCall.op = "drop" /\ lastCall.workspace = "A" /\ lastCall.result.status = "success"
    /\ <<"A", "x">> \notin DOMAIN store /\ <<"B", "x">> \in DOMAIN store

\* The call made in this step is a successful upsert of at least one record
\* that repeats the upsert before it.
SecondUpsert == FacadeStep /\ lastCall'.op = "upsert" /\ lastCall'.again
                   /\ ~lastCall'.raised /\ lastCall'.arg # <<>>

\* The statement as given: the second of two identical upserts leaves every
\* stored row, create_time and update_time included, as the first left it.
C5_SecondUpsertChangesNothing == [][ SecondUpsert => store' = store ]_vars

\* The keys an upsert call writes.
Written(call) == { <<call.workspace, call.arg[i][1]>> : i \in DOMAIN call.arg }

\* Claim C5: the second of two identical upserts leaves the same rows with the
\* same data columns and the same create_time; in PGDocStatusStorage, and
\* whenever no time has passed between the calls, the rows are identical; in
\* PGKVStorage and PGVectorStorage the update_time of the written rows is the
\* time of the second call.
C5_SecondUpsert ==
    [][ SecondUpsert =>
          /\ DOMAIN store' = DOMAIN store
          /\ \A k \in DOMAIN store :
                /\ store'[k].data = store[k].data
                /\ store'[k].create_time = store[k].create_time
                /\ k \notin Written(lastCall') => store'[k] = store[k]
                /\ (k \in Written(lastCall') /\ ns.cls # "PGDocStatusStorage")
                      => store'[k].update_time = now
          /\ (ns.cls = "PGDocStatusStorage" \/ lastCall.at = now) => store' = store
      ]_vars

\* A KV or Vector row upserted twice with the same value, the second time later.
W_C5 ==
    /\ lastCall.op = "upsert" /\ lastCall.again /\ ~lastCall.raised
    /\ ns.cls # "PGDocStatusStorage"
    /\ \E k \in Written(lastCall) :
          k \in DOMAIN store /\ store[k].create_time < store[k].update_time

\* Claim C6: filter_keys(K) returns K without the ids of K stored for the
\* facade's workspace, for every K, the empty set included, whenever the engine
\* is up.
C6_FilterKeys ==
    (lastCall.op = "filter_keys" /\ faulty = {} /\ lastCall.workspace \notin finalized) =>
        /\ ~lastCall.raised
        /\ lastCall.result =
              lastCall.arg \ { id \in lastCall.arg : <<lastCall.workspace, id>> \in DOMAIN store }

(***************************************************************************)
(* Properties of drop and delete (specification SpecStore).                *)
(***************************************************************************)
\* The table without the rows of workspace w.
WithoutWorkspace(s, w) == [k \in { k \in DOMAIN s : k[1] # w } |-> s[k]]

\* Claim C15: drop() of any facade raises nothing, whatever the namespace, the
\* engine and the facade's handle are: it returns a dict with a message and the
\* status 'success' or 'error'; when the status is 'success' the table has lost
\* the rows of the facade's workspace and no other row; and with the table
\* known, the engine up and the handle held, a workspace without rows gets
\* 'success'.
C15_DropNeverRaises ==
    [][ (FacadeStep /\ lastCall'.op = "drop") =>
          LET w == lastCall'.workspace IN
          /\ ~lastCall'.raised
          /\ DOMAIN lastCall'.result = {"status", "message"}
          /\ lastCall'.result.status \in {"success", "error"}
          /\ lastCall'.result.status = "success" => store' = WithoutWorkspace(store, w)
          /\ ( /\ namespace_to_table_name(ns.namespace) # None
               /\ Faults(w) = {}
               /\ \A k \in DOMAIN store : k[1] # w )
             => lastCall'.result.status = "success" /\ store' = store
      ]_vars

\* drop() on a facade that finalize() has left without a handle returned the
\* status 'error' and the rows of its workspace are still there.
W_C15 ==
    /\ lastCall.op = "drop" /\ lastCall.workspace = "A" /\ "A" \in finalized
    /\ faulty = {} /\ ~lastCall.raised /\ lastCall.result.status = "error"
    /\ <<"A", "x">> \in DOMAIN store

\* Claim C16: delete(ids) of any facade leaves every row that is not a row of
\* the facade's workspace with its id in ids as it was; with the table known,
\* the engine up and the handle held, no row of the workspace with its id in
\* ids is left; with no ids it issues no statement, changes nothing and raises
\* nothing.
C16_DeleteExactly ==
    [][ (FacadeStep /\ lastCall'.op = "delete") =>
          LET w == lastCall'.workspace
              ids == Range(lastCall'.arg)
          IN /\ \A k \in Keys :
                   ~(k[1] = w /\ k[2] \in ids)
                      => /\ (k \in DOMAIN store') <=> (k \in DOMAIN store)
                         /\ k \in DOMAIN store => store'[k] = store[k]
             /\ (namespace_to_table_name(ns.namespace) # None /\ Faults(w) = {})
                   => \A id \in ids : <<w, id>> \notin DOMAIN store'
             /\ lastCall'.arg = <<>>
                   => /\ delete_statements(ns, lastCall'.arg) = 0
                      /\ store' = store
                      /\ ~lastCall'.raised
      ]_vars

\* The first call, delete(["x"]) under A, removed A's row "x" and left B's.
W_C16 ==
    /\ step = 1 /\ lastCall.op = "delete" /\ lastCall.workspace = "A"
    /\ lastCall.arg = <<"x">> /\ ~lastCall.raised
    /\ <<"A", "x">> \notin DOMAIN store /\ <<"B", "x">> \in DOMAIN store

\* The moves of the status of a document: pending -> processing -> processed
\* or failed, and from processed or failed back to pending.
Lifecycle ==
    { <<"pending", "processing">>, <<"processing", "processed">>, <<"processing", "failed">>,
      <<"processed", "pending">>, <<"failed", "pending">> }

\* Claim C19: an upsert of PGDocStatusStorage changes the stored status of a
\* document only along pending -> processing -> processed or failed, or from
\* processed or failed back to pending; no upsert makes any other change, such
\* as processed -> processing or pending -> processed.
C19_StatusLifecycle ==
    [][ (FacadeStep /\ ns.cls = "PGDocStatusStorage" /\ lastCall'.op = "upsert") =>
          \A k \in DOMAIN store :
              (k \in DOMAIN store' /\ store'[k].data.status # store[k].data.status)
                 => <<store[k].data.status, store'[k].data.status>> \in Lifecycle
      ]_vars

\* What holds of C19: after an upsert that did not raise, the stored status of
\* each written document is the status of its record, whatever it was before.
C19_StatusAsGiven ==
    [][ (FacadeStep /\ ns.cls = "PGDocStatusStorage" /\ lastCall'.op = "upsert"
            /\ ~lastCall'.raised) =>
          \A i \in DOMAIN lastCall'.arg :
              store'[<<lastCall'.workspace, lastCall'.arg[i][1]>>].data.status
                 = lastCall'.arg[i][2].status
      ]_vars

(***************************************************************************)
(* Properties of get_docs_paginated (specification SpecPage).              *)
(***************************************************************************)
\* Claim C10: for every input of get_docs_paginated the page used is
\* max(page, 1), the page size used is min(max(page_size, 10), 200), a sort
\* field outside the allow-list becomes updated_at, a sort direction that is
\* not asc or desc in any letter case becomes desc (asc and desc reach the
\* ORDER BY clause in upper case), the offset is (page - 1) * page_size of the
\* values used, LIMIT is within 10..200 and OFFSET is not negative.
C10_PaginationNormalised ==
    page.stage # "idle" =>
        LET a == page.args
            v == page.valid
            lowered == lower(a.sort_direction)
        IN /\ v.page = IF a.page >= 1 THEN a.page ELSE 1
           /\ v.page >= a.page /\ v.page >= 1
           /\ v.page_size = IF a.page_size \in 10 .. 200 THEN a.page_size
                            ELSE IF a.page_size < 10 THEN 10 ELSE 200
           /\ v.sort_field = IF a.sort_field \in {"created_at", "updated_at", "id", "file_path"}
                             THEN a.sort_field ELSE "updated_at"
           /\ v.order_direction = IF lowered = <<"a", "s", "c">> THEN <<"A", "S", "C">>
                                  ELSE <<"D", "E", "S", "C">>
           /\ lower(v.sort_direction) = IF lowered = <<"a", "s", "c">> THEN <<"a", "s", "c">>
                                        ELSE <<"d", "e", "s", "c">>
           /\ page.offset = (v.page - 1) * v.page_size
           /\ page.limit = v.page_size
           /\ page.limit \in 10 .. 200
           /\ page.offset >= 0
           /\ Len(page.documents) <= page.limit

\* A call with page 0, page size 500, an unknown sort field and the direction
\* "ASC" returned the rows of its workspace.
W_C10 ==
    /\ page.stage = "returned"
    /\ page.args.page = 0 /\ page.args.page_size = 500
    /\ page.args.sort_field = "status" /\ page.args.sort_direction = <<"A", "S", "C">>
    /\ page.valid.page = 1 /\ page.limit = 200 /\ page.offset = 0
    /\ page.valid.sort_field = "updated_at"
    /\ Len(page.documents) = 2

\* Claim C11: when get_docs_paginated returns, total_count is the number of
\* rows of the facade's workspace that satisfy the status filter (all of them
\* without a filter), whatever page and page_size are; the page holds at most
\* page_size documents, each one a row of that workspace that satisfies the
\* filter, and no document twice.
C11_TotalCountAndPage ==
    page.stage = "returned" =>
        LET w == page.workspace
            filter == page.args.status_filter
            rows == { k \in DOMAIN store :
                         k[1] = w /\ (filter = None \/ store[k].data.status = filter) }
        IN /\ page.total_count = Cardinality(rows)
           /\ Len(page.documents) <= page.valid.page_size
           /\ \A i \in DOMAIN page.documents :
                 LET doc == page.documents[i] IN
                 /\ <<w, doc[1]>> \in rows
                 /\ doc[2].data.status = store[<<w, doc[1]>>].data.status
                 /\ doc[2].data.file_path = store[<<w, doc[1]>>].data.file_path
                 /\ doc[2].created_at = store[<<w, doc[1]>>].create_time
           /\ \A i, j \in DOMAIN page.documents :
                 i # j => page.documents[i][1] # page.documents[j][1]

\* A filtered call on a workspace of eleven documents, the other workspace
\* not empty: the second page of ten of all documents holds one document,
\* total_count is eleven.
W_C11 ==
    /\ page.stage = "returned"
    /\ page.workspace = "A"
    /\ \E k \in DOMAIN store : k[1] = "B"
    /\ page.args.status_filter = None
    /\ page.valid.page = 2 /\ page.valid.page_size = 10
    /\ page.total_count = 11
    /\ Len(page.documents) = 1

(***************************************************************************)
(* Properties of the read paths (specification SpecRead).                  *)
(***************************************************************************)
ListColumns == {"llm_cache_list", "entity_names", "relation_pairs", "chunks_list"}

DictColumns == {"metadata", "queryparam"}

\* The empty value of the column's type.
TypedDefault(column) == IF column \in DictColumns THEN JDict(<<>>) ELSE JList(<<>>)

\* The cell holds a text that json.loads rejects.
Malformed(cell) == ~cell.null /\ loads(cell.text) = JSONDecodeError

\* The query of the read call selects the stored row with the id.
Selects(call, s, id) ==
    /\ <<call.workspace, id>> \in DOMAIN s
    /\ CASE call.op = "get_by_id" -> id = call.arg
         [] call.op = "get_by_ids" -> id \in Range(call.arg)
         [] call.op = "get_all" -> TRUE
         [] call.op = "get_docs_by_status" -> s[<<call.workspace, id>>].data.status = call.arg
         [] call.op = "get_docs_by_track_id" ->
               s[<<call.workspace, id>>].data.track_id = call.arg
         [] OTHER -> FALSE

\* What the call returned for the row with the id.
ReturnedRow(call, s, id) ==
    CASE call.op = "get_by_id" -> call.result
      [] call.op = "get_by_ids" ->
            call.result[CHOOSE i \in DOMAIN call.result :
                           Listed(SelectIdsIn(s, call.workspace, Range(call.arg)))[i] = id]
      [] OTHER -> call.result[id]

\* Claim C12: a read path (get_all, get_by_id, get_by_ids, get_docs_by_status,
\* get_docs_by_track_id) that selects a row whose JSON-bearing column holds a
\* text that is not JSON does not raise while the engine is up, and returns
\* the empty value of the column's type for it: [] for llm_cache_list,
\* entity_names, relation_pairs and chunks_list, {} for metadata and queryparam.
C12_MalformedJsonDecodesToDefault ==
    \A id \in Ids, c \in JsonColumns(ns) :
        ( /\ faulty = {}
          /\ Selects(lastCall, store, id)
          /\ Malformed(store[<<lastCall.workspace, id>>].data.json[c]) )
        => /\ ~lastCall.raised
           /\ ReturnedRow(lastCall, store, id).data.json[c] = TypedDefault(c)

\* The part of C12 that holds: the list columns and metadata.
C12_ListsAndMetadata ==
    \A id \in Ids, c \in JsonColumns(ns) \ {"queryparam"} :
        ( /\ faulty = {}
          /\ Selects(lastCall, store, id)
          /\ Malformed(store[<<lastCall.workspace, id>>].data.json[c]) )
        => /\ ~lastCall.raised
           /\ ReturnedRow(lastCall, store, id).data.json[c] = TypedDefault(c)

\* The call made in this step is get_by_id of the id that the call before it,
\* a successful upsert of one record by the same facade, has written.
ReadsBack ==
    /\ FacadeStep
    /\ lastCall.op = "upsert" /\ ~lastCall.raised /\ Len(lastCall.arg) = 1
    /\ lastCall'.op = "get_by_id" /\ ~lastCall'.raised
    /\ lastCall'.workspace = lastCall.workspace
    /\ lastCall'.arg = lastCall.arg[1][1]

\* Claim C13: a list or dict x (the empty list and the empty dict included)
\* that upsert writes into a JSON-bearing field (llm_cache_list, entity_names,
\* relation_pairs, chunks_list, metadata, queryparam) is what the following
\* get_by_id of the same id in the same workspace returns in that field: the
\* same list or dict, in the same order, not a JSON text.
C13_JsonRoundTrip ==
    [][ ReadsBack =>
          \A c \in JsonColumns(ns) :
              Payload(lastCall.arg[1][2], c) \in ListsAndDicts
                 => lastCall'.result.data.json[c] = Payload(lastCall.arg[1][2], c)
      ]_vars

\* The round trip of the payloads that bool() takes for true, and of every
\* list or dict in the fields other than queryparam.
C13_TruthyRoundTrip ==
    [][ ReadsBack =>
          \A c \in JsonColumns(ns) :
              ( /\ Payload(lastCall.arg[1][2], c) \in ListsAndDicts
                /\ (c = "queryparam" => ~Falsy(Payload(lastCall.arg[1][2], c))) )
                 => lastCall'.result.data.json[c] = Payload(lastCall.arg[1][2], c)
      ]_vars

\* The row a read path returned shows both timestamps.
ExposesBoth(row) ==
    \/ {"create_time", "update_time"} \subseteq DOMAIN row
    \/ {"created_at", "updated_at"} \subseteq DOMAIN row

\* <<creation time, update time>> of a returned row.
Times(row) ==
    IF "update_time" \in DOMAIN row THEN <<row.create_time, row.update_time>>
    ELSE <<row.created_at, row.updated_at>>

\* Every row the upsert of this step wrote has its update time at or after
\* its creation time.
WritesOrdered ==
    (lastCall'.op = "upsert" /\ ~lastCall'.raised)
       => \A k \in Written(lastCall') :
             k \in DOMAIN store' => store'[k].update_time >= store'[k].create_time

\* The read of this step returns the creation time as the update time of
\* each selected row whose stored update time is 0 or NULL.
ReadsDefaulted ==
    \A id \in Ids :
        ( /\ faulty = {} /\ ~lastCall'.raised
          /\ Selects(lastCall', store, id)
          /\ store[<<lastCall'.workspace, id>>].update_time \in {0, NullTime}
          /\ ExposesBoth(ReturnedRow(lastCall', store, id)) )
        => Times(ReturnedRow(lastCall', store, id))[2] = Times(ReturnedRow(lastCall', store, id))[1]

\* Claim C14: a row an upsert of any facade has written has update_time (or
\* updated_at) >= create_time (or created_at), and every read path that shows
\* both returns update_time equal to create_time for a row whose stored
\* update_time is 0 or absent.
C14_Timestamps == [][ FacadeStep => WritesOrdered /\ ReadsDefaulted ]_vars

\* What holds of C14: PGKVStorage and PGVectorStorage write the time of the
\* call, so their rows are ordered; the PGKVStorage read paths of the
\* namespaces with a JSON-bearing column return create_time for a stored
\* update_time of 0.
C14_KvTimestamps ==
    [][ FacadeStep =>
          /\ ns.cls # "PGDocStatusStorage" => WritesOrdered
          /\ (ns.cls = "PGKVStorage" /\ JsonColumns(ns) # {}) =>
                \A id \in Ids :
                    ( /\ faulty = {} /\ ~lastCall'.raised
                      /\ Selects(lastCall', store, id)
                      /\ store[<<lastCall'.workspace, id>>].update_time = 0 )
                    => ReturnedRow(lastCall', store, id).update_time
                          = ReturnedRow(lastCall', store, id).create_time
      ]_vars

ReadOps ==
    { "get_all", "get_by_id", "get_by_ids", "get_vectors_by_ids", "get_docs_by_status",
      "get_docs_by_track_id", "get_status_counts" }

\* The call returned nothing: None for get_by_id, an empty map or list otherwise.
ReturnedEmpty(call) ==
    /\ ~call.raised
    /\ IF call.op = "get_by_id" THEN call.result = NoRow ELSE call.result = EmptyResult

\* Claim C17: while query and execute fail, every read operation of every
\* facade (get_all, get_by_id, get_by_ids, get_vectors_by_ids,
\* get_docs_by_status, get_docs_by_track_id, the status counts) returns an
\* empty result without raising, and upsert and filter_keys raise.
C17_ErrorSurfacing ==
    faulty # {} =>
        /\ lastCall.op \in ReadOps => ReturnedEmpty(lastCall)
        /\ lastCall.op \in {"upsert", "filter_keys"} => lastCall.raised

\* What holds of C17: while query and execute fail, PGKVStorage.get_all and
\* the reads of PGVectorStorage return an empty result (as does the
\* get_by_ids of PGDocStatusStorage without ids, which makes no query), every
\* other read raises, and so do filter_keys and an upsert of a record.
C17_GuardedReads ==
    (faulty # {} /\ lastCall.op # "") =>
        IF \/ lastCall.op = "get_all"
           \/ lastCall.op \in ReadOps /\ ns.cls = "PGVectorStorage"
           \/ lastCall.op = "get_by_ids" /\ lastCall.arg = <<>> /\ ns.cls # "PGKVStorage"
        THEN ReturnedEmpty(lastCall)
        ELSE lastCall.raised

(***************************************************************************)
(* Properties of namespace_to_table_name (specification SpecRoute).        *)
(***************************************************************************)
\* The entries of the map whose name the namespace ends with.
Hits(namespace) ==
    { i \in DOMAIN NAMESPACE_TABLE_MAP : is_namespace(namespace, NAMESPACE_TABLE_MAP[i][1]) }

\* The table registered for the longest registered name the namespace ends
\* with; None when it ends with no registered name.
LongestSuffixTable(namespace) ==
    IF Hits(namespace) = {} THEN None
    ELSE NAMESPACE_TABLE_MAP[
            CHOOSE i \in Hits(namespace) :
               \A j \in Hits(namespace) :
                  Len(NAMESPACE_TABLE_MAP[j][1]) <= Len(NAMESPACE_TABLE_MAP[i][1])][2]

\* Claim C18: namespace_to_table_name returns, for a namespace that ends with
\* a registered name after any prefix, the table registered for the longest
\* registered name it ends with: LIGHTRAG_FULL_ENTITIES for '...full_entities'
\* (never LIGHTRAG_VDB_ENTITY), LIGHTRAG_DOC_CHUNKS for '...text_chunks' (never
\* LIGHTRAG_VDB_CHUNKS); and no table for a namespace that ends with none.
C18_NamespaceRouting ==
    lastCall.op = "namespace_to_table_name" =>
        /\ lastCall.result = LongestSuffixTable(lastCall.arg)
        /\ is_namespace(lastCall.arg, NameSpace.KV_STORE_FULL_ENTITIES)
              => lastCall.result = "LIGHTRAG_FULL_ENTITIES"
        /\ is_namespace(lastCall.arg, NameSpace.KV_STORE_TEXT_CHUNKS)
              => lastCall.result = "LIGHTRAG_DOC_CHUNKS"
        /\ (\A i \in DOMAIN NAMESPACE_TABLE_MAP :
               ~is_namespace(lastCall.arg, NAMESPACE_TABLE_MAP[i][1]))
              => lastCall.result = None

\* 'x_full_entities' resolved to LIGHTRAG_FULL_ENTITIES, though it ends with
\* 'entities' too.
W_C18 ==
    /\ lastCall.op = "namespace_to_table_name"
    /\ lastCall.arg = <<"x", "_", "full", "_", "entities">>
    /\ is_namespace(lastCall.arg, NameSpace.VECTOR_STORE_ENTITIES)
    /\ lastCall.result = "LIGHTRAG_FULL_ENTITIES"

(***************************************************************************)
(* Properties of the embedding of PGVectorStorage.upsert (specification    *)
(* SpecEmbed).                                                             *)
(***************************************************************************)
\* The batches are consecutive slices of the contents, each of 1..b contents
\* and each but the last of exactly b.
ConsecutiveBatches(e) ==
    /\ concatenate(e.batches) = ContentsOf(e.data)
    /\ \A k \in DOMAIN e.batches :
          /\ Len(e.batches[k]) \in 1..e.batch_size
          /\ k < Len(e.batches) => Len(e.batches[k]) = e.batch_size

\* The row of the i-th record holds its content and the embedding of that content.
OwnVector(e, i) ==
    LET key == <<e.workspace, e.data[i][1]>>
    IN /\ key \in DOMAIN store
       /\ store[key].data.content = e.data[i][2]
       /\ store[key].data.content_vector = embedding_func(e.data[i][2])

\* Claim C20: for n >= 1 records and a batch size b >= 1, upsert splits the
\* contents into consecutive batches of at most b, and when it returns, the
\* vector in the row of the i-th record is the embedding of the i-th record's
\* content, whatever the order in which the embedding tasks completed.
C20_EmbeddingAttachment ==
    (embedding.stage # "idle" /\ embedding.data # <<>>) =>
        /\ ConsecutiveBatches(embedding)
        /\ (embedding.stage = "ended" /\ ~lastCall.raised) =>
              \A i \in DOMAIN embedding.data : OwnVector(embedding, i)

\* Three records with three contents in batches of two and one, the second
\* task completing first, have been written.
W_C20 ==
    /\ embedding.stage = "ended" /\ ~lastCall.raised
    /\ ContentsOf(embedding.data) = <<"c1", "c2", "c3">>
    /\ embedding.batch_size = 2
    /\ embedding.completed = <<2, 1>>
    /\ <<"A", "r1">> \in DOMAIN store /\ store[<<"A", "r1">>].create_time = 0

(***************************************************************************)
(* Properties of ClientManager._lock (specification Spec).                 *)
(***************************************************************************)
\* The awaits of get_client / release_client that wait for the database.
DatabaseIO == {"initdb", "check_tables", "close"}

\* Claim C21: the registry mutex is never held while pool creation, the
\* check_tables queries or pool close are in progress, so no caller waits for
\* the mutex during another caller's database I/O.
C21_LockNotHeldAcrossIO ==
    \A p \in Procs : pc[p] \in DatabaseIO => lock # p

\* The mutex is held exactly by the caller whose database I/O is in progress.
C21_LockHeldAcrossIO ==
    \A p \in Procs : (pc[p] \in DatabaseIO) <=> (lock = p)

\* A caller waits for the mutex while the other awaits check_tables.
C21_BlockedOnIO ==
    \E p, q \in Procs :
        /\ pc[p] = "check_tables" /\ lock = p
        /\ pc[q] \in {"get_client", "release_client"}

(***************************************************************************)
(* Properties of the facade lifecycle (specification SpecLife).            *)
(***************************************************************************)
\* Coroutine q is inside method m: past its `async with`, not yet at its end.
InProgress(q, m) == tasks[q].method = m /\ tasks[q].stage \notin {"idle", "lock"}

\* Claim C22: initialize and finalize of a facade are mutually exclusive with
\* any concurrent drop(): drop never executes while an initialize or a
\* finalize is part-way through.
C22_LifecycleExclusion ==
    \A p, q \in Procs :
        InProgress(p, "drop") => ~InProgress(q, "initialize") /\ ~InProgress(q, "finalize")

\* finalize and drop exclude each other, and two initialize calls exclude each other.
C22_SameLockExclusion ==
    \A p, q \in Procs :
        /\ InProgress(p, "drop") => ~InProgress(q, "finalize")
        /\ (p # q /\ InProgress(p, "initialize")) => ~InProgress(q, "initialize")

\* drop awaits its DELETE while the initialize of the same facade awaits initdb.
C22_DropDuringInitialize ==
    \E p, q \in Procs :
        /\ tasks[p].stage = "execute" /\ pc[q] = "initdb"
        /\ tasks[q].method = "initialize" /\ tasks[q].facade # tasks[p].facade

\* Coroutine p's initialize ends in this step with the facade holding a handle.
InitializeEnds(p) ==
    /\ tasks[p].method = "initialize"
    /\ tasks[p].stage # "idle" /\ tasks'[p].stage = "idle"
    /\ facades'[tasks[p].facade].db # NoObj

\* Claim C23: an initialize that has its pool handle does not fail, and it
\* leaves the facade's workspace at the handle's workspace if non-empty, else
\* at the facade's own non-empty workspace, else at "default".
C23_InitializePriority ==
    [][ \A p \in Procs :
          InitializeEnds(p) =>
             /\ tasks'[p].outcome = "returned"
             /\ facades'[tasks[p].facade].workspace =
                   WorkspacePriority(attrs[facades'[tasks[p].facade].db],
                                     facades[tasks[p].facade].workspace) ]_vars

\* An initialize that returns has applied the priority rule; one that took its
\* handle from get_client raises and keeps the handle.
C23_PriorityOrAttributeError ==
    [][ \A p \in Procs :
          InitializeEnds(p) =>
             IF attrs[facades'[tasks[p].facade].db] = Missing
             THEN /\ tasks'[p].outcome = "raised"
                  /\ facades'[tasks[p].facade].workspace = facades[tasks[p].facade].workspace
             ELSE /\ tasks'[p].outcome = "returned"
                  /\ facades'[tasks[p].facade].workspace =
                        WorkspacePriority(attrs[facades'[tasks[p].facade].db],
                                          facades[tasks[p].facade].workspace) ]_vars

\* initialize has raised on a facade that holds the handle get_client returned.
C23_RaisedWithHandle ==
    \E p \in Procs :
        /\ tasks[p].method = "initialize" /\ tasks[p].outcome = "raised"
        /\ facades[tasks[p].facade].acquired /\ ref_count > 0

\* initialize has returned with the lowest priority of the rule.
C23_DefaultWorkspace ==
    \E f \in FacadeObjs : facades[f].initialized /\ facades[f].workspace = "default"

(***************************************************************************)
(* Properties of an upsert of several records (specification SpecBatch).   *)
(***************************************************************************)
\* The row of the i-th record of the call holds the record.
WrittenAt(items, w, i) ==
    /\ <<w, items[i][1]>> \in DOMAIN store'
    /\ store'[<<w, items[i][1]>>].data = DataColumns(ns, items[i][2])

\* The row of the i-th record of the call is as it was before the call.
UntouchedAt(items, w, i) ==
    IF <<w, items[i][1]>> \in DOMAIN store
    THEN /\ <<w, items[i][1]>> \in DOMAIN store'
         /\ store'[<<w, items[i][1]>>] = store[<<w, items[i][1]>>]
    ELSE <<w, items[i][1]>> \notin DOMAIN store'

\* Claim C24: a multi-record upsert is not atomic.  When the statement of the
\* k-th record fails, the first k-1 records are stored, the k-th and the
\* later records are not written, and the failure is raised; without a
\* failing statement every record is stored.
C24_PartialUpsert ==
    [][ (step = 0 /\ lastCall'.op = "upsert" /\ lastCall'.arg # <<>>) =>
          LET items == lastCall'.arg
              w == lastCall'.workspace
              k == FirstFailing(items, faulty)
          IN /\ lastCall'.raised = (k # 0)
             /\ \A i \in DOMAIN items :
                   IF k = 0 \/ i < k THEN WrittenAt(items, w, i) ELSE UntouchedAt(items, w, i)
             /\ \A key \in DOMAIN store' \ DOMAIN store :
                   \E i \in DOMAIN items : key = <<w, items[i][1]>> ]_vars

\* The statement of the second of three records has failed: the first record
\* is stored, the third is not, the older row of the second is as it was.
W_C24 ==
    /\ lastCall.op = "upsert" /\ lastCall.raised /\ lastCall.workspace = "A"
    /\ Len(lastCall.arg) = 3 /\ lastCall.arg[1][1] = RecordIds[3]
    /\ faulty = { <<"execute", RecordIds[2]>> }
    /\ DOMAIN store = { <<"A", RecordIds[3]>>, <<"A", RecordIds[2]>> }
    /\ store[<<"A", RecordIds[2]>>].update_time = 0

(***************************************************************************)
(* Properties of the data migrations (specification SpecMig).              *)
(***************************************************************************)
\* The database on which the first migration of the last run started.
AtFirstMigration == EnsureTables(TABLES, run.pre, run.F).db

\* LIGHTRAG_VDB_CHUNKS is empty, LIGHTRAG_DOC_CHUNKS has the legacy column
\* content_vector and has rows.
ChunkGuard(d) ==
    /\ d.vdbRows = 0
    /\ <<"LIGHTRAG_DOC_CHUNKS", "content_vector">> \in d.cols
    /\ d.docRows > 0

ChunksCopied == <<"doc_chunks", "insert">> \in Range(run.wrote)

\* Claim C25: _migrate_doc_chunks_to_vdb_chunks copies the rows of
\* LIGHTRAG_DOC_CHUNKS into LIGHTRAG_VDB_CHUNKS exactly when
\* LIGHTRAG_VDB_CHUNKS is empty, the legacy column content_vector exists and
\* LIGHTRAG_DOC_CHUNKS has rows (a statement of the function that fails ends
\* it without a write); in every other state it writes nothing, and it never
\* raises.
C25_ChunkMigrationGuard ==
    (run.n >= 1 /\ run.steps # <<>>) =>
        LET d == AtFirstMigration
            first == run.steps[1]
        IN /\ first.name = "doc_chunks_to_vdb_chunks"
           /\ ChunksCopied => ChunkGuard(d)
           /\ (ChunkGuard(d) /\ ~first.failed) => ChunksCopied
           /\ first.wrote = (IF ChunksCopied THEN 1 ELSE 0)
           /\ first.changed = ChunksCopied
           /\ ~migrate_doc_chunks_to_vdb_chunks(d, run.F).raised

\* The legacy rows have been copied into the empty LIGHTRAG_VDB_CHUNKS.
W_C25 ==
    /\ run.n = 1 /\ faulty = {} /\ ChunkGuard(AtFirstMigration) /\ ChunksCopied
    /\ run.db.vdbRows = run.pre.docRows

\* The guard holds and the INSERT fails: nothing is copied, the run goes on.
W_C25_InsertFails ==
    /\ run.n = 1 /\ ChunkGuard(AtFirstMigration) /\ ~ChunksCopied
    /\ faulty = { <<"doc_chunks", "insert">> } /\ ~run.raised /\ run.db.vdbRows = 0

\* The column types from the narrowest to the widest.
TypeOrder == << "varchar(255)", "varchar(256)", "varchar(512)", "varchar(1024)", "text" >>

Rank(t) == CHOOSE i \in DOMAIN TypeOrder : TypeOrder[i] = t

\* The columns of field_migrations that existed before the last run and whose
\* type the run has changed.
Retyped == { k \in FieldKeys : run.pre.ctype[k] # "absent" /\ run.db.ctype[k] # run.pre.ctype[k] }

\* Claim C26: a check_tables run removes no row, no table and no column, and
\* every column type it changes becomes the strictly wider type of
\* field_migrations; a column that has that type or a wider one is not
\* altered.
C26_NeverDestroysNorNarrows ==
    run.n >= 1 =>
        /\ run.pre.tables \subseteq run.db.tables
        /\ run.pre.cols \subseteq run.db.cols
        /\ run.db.docRows >= run.pre.docRows
        /\ run.db.vdbRows >= run.pre.vdbRows
        /\ run.db.cacheOld + run.db.cacheNew = run.pre.cacheOld + run.pre.cacheNew
        /\ \A k \in Retyped :
              /\ run.db.ctype[k] = DdlType(k)
              /\ Rank(run.pre.ctype[k]) < Rank(run.db.ctype[k])
        /\ \A k \in FieldKeys :
              (run.pre.ctype[k] # "absent" /\ Rank(run.pre.ctype[k]) >= Rank(DdlType(k)))
                  => <<"field_lengths.alter", k>> \notin Range(run.wrote)

\* A run has widened a varchar(256) column to text.
W_C26 ==
    /\ run.n >= 1
    /\ \E k \in Retyped : run.pre.ctype[k] = "varchar(256)" /\ run.db.ctype[k] = "text"

\* A run has left a varchar(1024) column alone.
W_C26_Wider ==
    /\ run.n >= 1 /\ ~run.raised /\ Len(run.steps) = Len(Migrations)
    /\ \E k \in FieldKeys : run.pre.ctype[k] = "varchar(1024)" /\ run.db.ctype[k] = "varchar(1024)"

FinalizeDecrements(p) ==
    /\ tasks[p].method = "finalize" /\ pc[p] = "release_client"
    /\ pc'[p] # "release_client" /\ ref_count' < ref_count

\* Claim C28: a facade's finalize decrements the shared ref_count only if
\* that facade's initialize incremented it, and the pool of a facade that has
\* completed initialize and has not finalized is never closed.
C28_NoUseAfterClose ==
    [][ /\ \A p \in Procs : FinalizeDecrements(p) => facades[tasks[p].facade].acquired
        /\ \A f \in FacadeObjs : facades'[f].initialized => facades'[f].db \in open' ]_vars

\* The finalize of one facade has closed the pool that another facade, which
\* has completed initialize, still holds.
C28_ClosedUnderFacade ==
    \E f \in FacadeObjs : facades[f].initialized /\ facades[f].db \notin open

\* The finalize of a facade built with the registered handle has brought
\* ref_count to 0 and closed the pool, though its initialize took no reference.
C28_UnownedDecrement ==
    \E p \in Procs :
        /\ tasks[p].method = "finalize" /\ tasks[p].outcome = "returned"
        /\ 1 \in issued /\ arg[p] = 1 /\ 1 \notin open /\ ref_count = 0 /\ objs = 1

(***************************************************************************)
(* Properties of the connection pools (specification Spec).                *)
(***************************************************************************)
\* The object a get_client call in progress is creating.
InCreation(o) == \E p \in Procs : lock = p /\ pc[p] \in {"initdb", "check_tables"} /\ calls[p].obj = o

\* Claim C29: every open connection pool is the one the registry references
\* (or the one a get_client call is still creating); no pool stays open with
\* the registry's db None.
C29_NoOrphanedPool ==
    \A o \in open : o = db \/ InCreation(o)

\* The open pools outside the registry are those of objects whose check_tables
\* failed: get_client returned none of them.
C29_OnlyRegisteredOpen ==
    \A o \in open : o = db \/ InCreation(o) \/ o \notin issued

\* initdb succeeded, check_tables raised, get_client has ended: the pool is
\* open and the registry is empty.
C29_OrphanedPool ==
    /\ lock = NoProc /\ db = NoObj /\ ref_count = 0 /\ open # {}
    /\ \E p \in Procs : pc[p] = "idle" /\ ret[p] = Raised /\ calls[p].obj \in open

(***************************************************************************)
(* Properties of the timestamps of an upsert (specification SpecStore).    *)
(***************************************************************************)
\* An upsert of the KV or Vector facade acts in this step.
TimedUpsert ==
    /\ FacadeStep /\ lastCall'.op = "upsert"
    /\ ns.cls \in {"PGKVStorage", "PGVectorStorage"}

\* Claim C30: in the KV and Vector tables an upsert onto an existing
\* (workspace, id) replaces the data columns and update_time and leaves
\* create_time at the value of the first insert; a new row gets both
\* timestamps from the time of the upsert.
C30_CreateTimePreserved ==
    [][ TimedUpsert =>
          /\ \A key \in DOMAIN store :
                key \in DOMAIN store' /\ store'[key].create_time = store[key].create_time
          /\ ~lastCall'.raised =>
                \A i \in DOMAIN lastCall'.arg :
                   LET key == <<lastCall'.workspace, lastCall'.arg[i][1]>>
                   IN upsert_template(ns) # None =>
                         /\ key \in DOMAIN store'
                         /\ store'[key].data = DataColumns(ns, lastCall'.arg[i][2])
                         /\ store'[key].update_time = now
                         /\ key \notin DOMAIN store => store'[key].create_time = now ]_vars

\* A row inserted by a first upsert has been upserted again later with other
\* data: it keeps the create_time of the insert.
W_C30 ==
    /\ lastCall.op = "upsert" /\ ~lastCall.raised /\ step = 2
    /\ ns.cls \in {"PGKVStorage", "PGVectorStorage"}
    /\ \E i \in DOMAIN lastCall.arg :
          LET key == <<lastCall.workspace, lastCall.arg[i][1]>>
          IN /\ key \in DOMAIN store
             /\ store[key].create_time = 1
             /\ store[key].update_time = 2
             /\ lastCall.at = 2

====
